---- MODULE Spec2Model ----
(***************************************************************************)
(* SA road crash map (app.js): the predicate filter engine, the            *)
(* aggregation over the filtered set, the cooperative scheduling of the    *)
(* marker, density and choropleth layers, the filters in the page's        *)
(* address and the loading of the data sets; its helpers (colour scale,    *)
(* density samples, coordinate conversion, record linking, area names)     *)
(* and the cache-first strategy of its service worker, each on its own.    *)
(*                                                                         *)
(* Strings the program parses, trims, splits or compares are sequences of  *)
(* one-character strings; strings it only tests for equality or set        *)
(* membership are TLA+ strings.                                            *)
(***************************************************************************)
EXTENDS Integers, Sequences, FiniteSets, TLC

VARIABLES
    row,            \* the crash record handed to the filter predicates
    dom,            \* the filter widgets of the page (what getFilterValues reads)
    out,            \* what the four filter predicates returned for row
    pc,             \* "start" before the predicates ran on row, "done" after;
                    \* the data set being fetched while the page loads
                    \* ("crash", "casualty", "units", then "boundaries"),
                    \* "failed" after a data set could not be fetched,
                    \* "loaded" while the page runs
    filteredData,   \* the filtered set: references into crashData, in order
    stats,          \* the totals shown in the statistics panel
    activeLayers,   \* which of markers, density, choropleth are switched on
    markersLayer,   \* the marker cluster group: on the map or not, and how
                    \* many markers it holds of each crash
    densityLayer,   \* the heat layer the global refers to (0: none)
    choroplethLayer,\* the choropleth layer the global refers to (0: none)
    mapHeat,        \* the heat layers attached to the map
    mapChoropleth,  \* the choropleth layers attached to the map
    loadingVisible, \* the loading overlay is showing
    timers,         \* the pending setTimeout callbacks, in the order set
    frames,         \* the pending requestAnimationFrame callbacks
    searchPending,  \* a location search awaits the geocoder
    userActions,    \* clicks and searches so far
    history,        \* what has happened: the filtered set was replaced, or
                    \* a marker load started, while a marker load was running;
                    \* marker loads started, completion callbacks invoked, and
                    \* whether a completed load has not read every index once;
                    \* a filter application ran on data not loaded and
                    \* linked; one ran on the loaded and linked data
    url,            \* the query parameters of the page's address
    lgaBoundaries,  \* the LGA boundary data: "none" before the fetch has
                    \* answered and after it failed, "loaded" after it succeeded
    args,           \* the function SpecFunctions evaluates and its arguments
    result          \* what that function returned

vars ==
    <<row, dom, out, pc, filteredData, stats, activeLayers, markersLayer,
      densityLayer, choroplethLayer, mapHeat, mapChoropleth, loadingVisible,
      timers, frames, searchPending, userActions, history, url, lgaBoundaries,
      args, result>>

\* The state of the page, as opposed to the one crash a filter is run on.
pageVars ==
    <<filteredData, stats, activeLayers, markersLayer, densityLayer,
      choroplethLayer, mapHeat, mapChoropleth, loadingVisible, timers, frames,
      searchPending, userActions, history, url, lgaBoundaries, args, result>>

(***************************************************************************)
(* Bounds of the model.                                                    *)
(***************************************************************************)
MaxCasualties == 2
MaxUnits == 2

(***************************************************************************)
(* JavaScript string primitives.                                           *)
(***************************************************************************)
Digits == {"0", "1", "2", "3", "4", "5", "6", "7", "8", "9"}

DigitVal(c) ==
    CASE c = "0" -> 0 [] c = "1" -> 1 [] c = "2" -> 2 [] c = "3" -> 3
      [] c = "4" -> 4 [] c = "5" -> 5 [] c = "6" -> 6 [] c = "7" -> 7
      [] c = "8" -> 8 [] c = "9" -> 9

\* UTF-16 code unit of the characters the model's strings are made of.
CharCode(c) ==
    CASE c = " " -> 32 [] c = "+" -> 43 [] c = "-" -> 45 [] c = "/" -> 47
      [] c \in Digits -> 48 + DigitVal(c)
      [] c = ":" -> 58
      [] c = "C" -> 67 [] c = "T" -> 84 [] c = "Y" -> 89
      [] c = "x" -> 120 [] c = "y" -> 121 [] c = "z" -> 122

\* a < b on strings: lexicographic on code units, a proper prefix is smaller.
RECURSIVE StrLt(_, _)
StrLt(a, b) ==
    IF b = <<>> THEN FALSE
    ELSE IF a = <<>> THEN TRUE
    ELSE IF CharCode(Head(a)) < CharCode(Head(b)) THEN TRUE
    ELSE IF CharCode(Head(a)) > CharCode(Head(b)) THEN FALSE
    ELSE StrLt(Tail(a), Tail(b))

StrGt(a, b) == StrLt(b, a)
StrLe(a, b) == ~StrLt(b, a)

\* String.prototype.trim for the one whitespace character of the model.
RECURSIVE TrimStart(_)
TrimStart(s) == IF s # <<>> /\ Head(s) = " " THEN TrimStart(Tail(s)) ELSE s

RECURSIVE TrimEnd(_)
TrimEnd(s) ==
    IF s # <<>> /\ s[Len(s)] = " " THEN TrimEnd(SubSeq(s, 1, Len(s) - 1)) ELSE s

Trim(s) == TrimEnd(TrimStart(s))

\* String.prototype.split(sep) for a one-character separator.
RECURSIVE SplitFrom(_, _, _, _)
SplitFrom(s, sep, cur, acc) ==
    IF s = <<>> THEN Append(acc, cur)
    ELSE IF Head(s) = sep THEN SplitFrom(Tail(s), sep, <<>>, Append(acc, cur))
    ELSE SplitFrom(Tail(s), sep, Append(cur, Head(s)), acc)

Split(s, sep) == SplitFrom(s, sep, <<>>, <<>>)

\* String.prototype.padStart(2, '0').
PadStart2(s) ==
    IF Len(s) >= 2 THEN s
    ELSE IF Len(s) = 1 THEN <<"0">> \o s
    ELSE <<"0", "0">>

\* parseInt: leading whitespace, an optional sign, then the longest run of
\* digits; NaN when there is no digit.  A number is [nan |-> FALSE, val |-> n].
NaN == [nan |-> TRUE, val |-> 0]
Num(n) == [nan |-> FALSE, val |-> n]

RECURSIVE DigitRun(_, _)
DigitRun(s, acc) ==
    IF s = <<>> \/ Head(s) \notin Digits THEN acc
    ELSE DigitRun(Tail(s), 10 * acc + DigitVal(Head(s)))

parseInt(s) ==
    LET t == TrimStart(s)
        signed == t # <<>> /\ Head(t) \in {"-", "+"}
        u == IF signed THEN Tail(t) ELSE t
    IN  IF u = <<>> \/ Head(u) \notin Digits THEN NaN
        ELSE IF signed /\ Head(t) = "-" THEN Num(0 - DigitRun(u, 0))
        ELSE Num(DigitRun(u, 0))

isNaN(n) == n.nan

\* The relational operators on numbers: every comparison with NaN is false.
NumLt(a, b) == ~a.nan /\ ~b.nan /\ a.val < b.val
NumGt(a, b) == NumLt(b, a)
NumLe(a, b) == ~a.nan /\ ~b.nan /\ a.val <= b.val
NumGe(a, b) == NumLe(b, a)
NumEq(a, b) == ~a.nan /\ ~b.nan /\ a.val = b.val

(***************************************************************************)
(* The filter widgets.  A checkbox dropdown (element <id>Menu) holds the   *)
(* set of checked values; a multi-select holds the set of selected option  *)
(* values, the 'all' option included; a single select or input holds its   *)
(* value.                                                                  *)
(***************************************************************************)
MenuIds == {"severity", "crashType", "area", "suburb"}

SelectIds ==
    {"roadUserType", "ageGroup", "casualtySex", "injuryExtent", "seatBelt",
     "helmet", "vehicleType", "vehicleYear", "occupants", "licenseType",
     "vehRegState", "directionTravel", "unitMovement", "roadSurface",
     "moistureCond"}

\* The options of each multi-valued widget, without the 'all' option of a
\* multi-select (populateFilterOptions fills most of them from the data).
Options(id) ==
    CASE id = "severity" -> {"1: PDO", "2: MI", "3: SI", "4: Fatal"}
      [] id = "crashType" -> {"Rear End", "Hit Pedestrian"}
      [] id = "area" -> {"CITY OF MARION", "CC MITCHAM."}
      [] id = "suburb" -> {"MARION", "GLENELG"}
      [] id = "roadUserType" -> {"Driver", "Pedestrian"}
      [] id = "ageGroup" -> {"0-17", "18-25", "26-35", "36-50", "51-65", "66+"}
      [] id = "casualtySex" -> {"Male", "Female"}
      [] id = "injuryExtent" -> {"Minor", "Fatal"}
      [] id = "seatBelt" -> {"Yes", "No"}
      [] id = "helmet" -> {"Worn", "Not Worn"}
      [] id = "vehicleType" -> {"Motor Cars - Sedan", "SEMI TRAILER"}
      [] id = "vehicleYear" -> {"pre-2000", "2000-2010", "2011-2020", "2021+"}
      [] id = "occupants" -> {"1", "2", "3", "4", "5+"}
      [] id = "licenseType" -> {"Full", "Provisional"}
      [] id = "vehRegState" -> {"SA", "VIC"}
      [] id = "directionTravel" -> {"North", "South"}
      [] id = "unitMovement" -> {"Straight Ahead", "Right Turn"}
      [] id = "roadSurface" -> {"Sealed", "Unsealed"}
      [] id = "moistureCond" -> {"Dry", "Wet"}

\* The widgets as the page is built and as clearFilters leaves them.
DefaultDom ==
    [currentYearRange |-> <<2012, 2024>>,
     severity |-> Options("severity"), crashType |-> Options("crashType"),
     area |-> Options("area"), suburb |-> Options("suburb"),
     weather |-> "all", dayNight |-> "all", duiInvolved |-> "all",
     drugsInvolved |-> "all", rollover |-> "all", fire |-> "all",
     heavyVehicle |-> "all", towing |-> "all",
     dateFrom |-> <<>>, dateTo |-> <<>>, timeFrom |-> <<>>, timeTo |-> <<>>,
     roadUserType |-> {"all"}, ageGroup |-> {"all"}, casualtySex |-> {"all"},
     injuryExtent |-> {"all"}, seatBelt |-> {"all"}, helmet |-> {"all"},
     vehicleType |-> {"all"}, vehicleYear |-> {"all"}, occupants |-> {"all"},
     licenseType |-> {"all"}, vehRegState |-> {"all"},
     directionTravel |-> {"all"}, unitMovement |-> {"all"},
     roadSurface |-> {"all"}, moistureCond |-> {"all"}]

\* The accepted values of a multi-valued widget (the array the code returns,
\* which it only probes with includes/some/has, as a set).
getSelectedValues(elementId, d) ==
    IF elementId \in MenuIds
    THEN IF Cardinality(d[elementId]) = 0
            \/ Cardinality(d[elementId]) = Cardinality(Options(elementId))
         THEN {"all"}
         ELSE d[elementId]
    ELSE LET selected == d[elementId]
         IN  IF Cardinality(selected) = 0 THEN {"all"}
             ELSE IF "all" \in selected /\ Cardinality(selected) > 1
                  THEN selected \ {"all"}
                  ELSE selected

getValue(elementId, d) ==
    IF elementId \in MenuIds
    THEN IF Cardinality(d[elementId]) = 0
            \/ Cardinality(d[elementId]) = Cardinality(Options(elementId))
         THEN "all"
         ELSE IF Cardinality(d[elementId]) = 1
              THEN CHOOSE v \in d[elementId] : TRUE
              ELSE "multiple"
    ELSE d[elementId]

getFilterValues(d) ==
    [yearFrom |-> d.currentYearRange[1],
     yearTo |-> d.currentYearRange[2],
     selectedSeverities |-> getSelectedValues("severity", d),
     crashType |-> getValue("crashType", d),
     selectedCrashTypes |-> getSelectedValues("crashType", d),
     weather |-> getValue("weather", d),
     dayNight |-> getValue("dayNight", d),
     duiInvolved |-> getValue("duiInvolved", d),
     selectedAreas |-> getSelectedValues("area", d),
     selectedSuburbs |-> getSelectedValues("suburb", d),
     dateFrom |-> getValue("dateFrom", d),
     dateTo |-> getValue("dateTo", d),
     timeFrom |-> getValue("timeFrom", d),
     timeTo |-> getValue("timeTo", d),
     selectedRoadUsers |-> getSelectedValues("roadUserType", d),
     selectedAgeGroups |-> getSelectedValues("ageGroup", d),
     selectedSexes |-> getSelectedValues("casualtySex", d),
     selectedInjuries |-> getSelectedValues("injuryExtent", d),
     selectedSeatBelts |-> getSelectedValues("seatBelt", d),
     selectedHelmets |-> getSelectedValues("helmet", d),
     heavyVehicle |-> getValue("heavyVehicle", d),
     selectedVehicles |-> getSelectedValues("vehicleType", d),
     selectedVehicleYears |-> getSelectedValues("vehicleYear", d),
     selectedOccupants |-> getSelectedValues("occupants", d),
     towing |-> getValue("towing", d),
     rollover |-> getValue("rollover", d),
     fire |-> getValue("fire", d),
     selectedLicenseTypes |-> getSelectedValues("licenseType", d),
     selectedRegStates |-> getSelectedValues("vehRegState", d),
     selectedDirections |-> getSelectedValues("directionTravel", d),
     selectedMovements |-> getSelectedValues("unitMovement", d),
     selectedRoadSurfaces |-> getSelectedValues("roadSurface", d),
     selectedMoistureConds |-> getSelectedValues("moistureCond", d),
     drugsInvolved |-> getValue("drugsInvolved", d)]

(***************************************************************************)
(* The active-filters bar.                                                 *)
(***************************************************************************)
\* getSmartFilterDisplay returns a text (not null): some, but not all, of
\* the options of the widget are selected.
getSmartFilterDisplay(elementId, selectedValues) ==
    LET totalCount == Cardinality(Options(elementId) \ {"all"})
        selectedCount == Cardinality(selectedValues)
    IN  ~(selectedCount = 0 \/ selectedCount = totalCount)

\* The names of the tags updateActiveFiltersDisplay puts in the bar.
updateActiveFiltersDisplay(d) ==
    LET filters == getFilterValues(d)
        multi(name, elementId, selected) ==
            IF "all" \notin selected /\ getSmartFilterDisplay(elementId, selected)
            THEN {name} ELSE {}
        single(name, value) == IF value # "all" THEN {name} ELSE {}
    IN  (IF filters.yearFrom # 2012 \/ filters.yearTo # 2024 THEN {"Year"} ELSE {})
        \cup (IF filters.dateFrom # <<>> \/ filters.dateTo # <<>>
              THEN {"Date"} ELSE {})
        \cup (IF filters.timeFrom # <<>> \/ filters.timeTo # <<>>
              THEN {"Time"} ELSE {})
        \cup multi("Severity", "severity", filters.selectedSeverities)
        \cup (IF filters.crashType \notin {"all", "multiple"}
              THEN {"Crash Type"}
              ELSE IF filters.crashType = "multiple"
              THEN multi("Crash Type", "crashType", filters.selectedCrashTypes)
              ELSE {})
        \cup single("Weather", filters.weather)
        \cup multi("LGA", "area", filters.selectedAreas)
        \cup multi("Suburb", "suburb", filters.selectedSuburbs)
        \cup multi("Road User", "roadUserType", filters.selectedRoadUsers)
        \cup multi("Age", "ageGroup", filters.selectedAgeGroups)
        \cup multi("Sex", "casualtySex", filters.selectedSexes)
        \cup multi("Injury", "injuryExtent", filters.selectedInjuries)
        \cup multi("Seat Belt", "seatBelt", filters.selectedSeatBelts)
        \cup multi("Helmet", "helmet", filters.selectedHelmets)
        \cup single("Heavy Vehicle", filters.heavyVehicle)
        \cup multi("Vehicle Type", "vehicleType", filters.selectedVehicles)
        \cup multi("Vehicle Year", "vehicleYear", filters.selectedVehicleYears)
        \cup multi("Occupants", "occupants", filters.selectedOccupants)
        \cup single("Towing", filters.towing)
        \cup single("Rollover", filters.rollover)
        \cup single("Fire", filters.fire)
        \cup multi("License", "licenseType", filters.selectedLicenseTypes)
        \cup multi("Reg State", "vehRegState", filters.selectedRegStates)
        \cup multi("Direction", "directionTravel", filters.selectedDirections)
        \cup multi("Movement", "unitMovement", filters.selectedMovements)
        \cup multi("Road Surface", "roadSurface", filters.selectedRoadSurfaces)
        \cup multi("Moisture", "moistureCond", filters.selectedMoistureConds)
        \cup single("Drugs", filters.drugsInvolved)

(***************************************************************************)
(* The filters in the page's address.                                      *)
(***************************************************************************)
\* s.trim() of a value held as a whole: of the values here only one area
\* name carries padding.
trimValue(s) == IF s = " CITY OF MARION " THEN "CITY OF MARION" ELSE s

\* The options of the single selects the address restores.
SelectOptions(id) ==
    CASE id = "weather" -> {"all", "Raining", "Not Raining"}
      [] id = "dayNight" -> {"all", "Day", "Night"}
      [] id = "duiInvolved" -> {"all", "Yes", "No"}
      [] id = "drugsInvolved" -> {"all", "Yes", "No"}

\* new URLSearchParams(): has holds the names of the parameters that are set.
\* A list joined with ',' and split again is held as the set of its values
\* (no value here contains a comma).
NoParams ==
    [has |-> {}, yearFrom |-> 0, yearTo |-> 0, severity |-> {}, crashType |-> {},
     weather |-> "", dayNight |-> "", dui |-> "", drugs |-> "", areas |-> {},
     dateFrom |-> <<>>, dateTo |-> <<>>, timeFrom |-> <<>>, timeTo |-> <<>>]

\* The parameters encodeFiltersToURL puts in the address.
encodeFiltersToURL(d) ==
    LET filters == getFilterValues(d)
        has == {k \in DOMAIN NoParams \ {"has"} :
                   \/ k = "yearFrom" /\ filters.yearFrom # 2012
                   \/ k = "yearTo" /\ filters.yearTo # 2024
                   \/ k = "severity" /\ "all" \notin filters.selectedSeverities
                   \/ k = "crashType" /\ "all" \notin filters.selectedCrashTypes
                   \/ k = "weather" /\ filters.weather # "all"
                   \/ k = "dayNight" /\ filters.dayNight # "all"
                   \/ k = "dui" /\ filters.duiInvolved # "all"
                   \/ k = "drugs" /\ filters.drugsInvolved # "all"
                   \/ k = "areas" /\ "all" \notin filters.selectedAreas
                   \/ k = "dateFrom" /\ filters.dateFrom # <<>>
                   \/ k = "dateTo" /\ filters.dateTo # <<>>
                   \/ k = "timeFrom" /\ filters.timeFrom # <<>>
                   \/ k = "timeTo" /\ filters.timeTo # <<>>}
        all == [has |-> has,
                yearFrom |-> filters.yearFrom,
                yearTo |-> filters.yearTo,
                severity |-> {trimValue(v) : v \in filters.selectedSeverities},
                crashType |-> {trimValue(v) : v \in filters.selectedCrashTypes},
                weather |-> trimValue(filters.weather),
                dayNight |-> trimValue(filters.dayNight),
                dui |-> trimValue(filters.duiInvolved),
                drugs |-> trimValue(filters.drugsInvolved),
                areas |-> {trimValue(v) : v \in filters.selectedAreas},
                dateFrom |-> filters.dateFrom,
                dateTo |-> filters.dateTo,
                timeFrom |-> filters.timeFrom,
                timeTo |-> filters.timeTo]
    IN  [k \in DOMAIN NoParams |-> IF k = "has" \/ k \in has THEN all[k] ELSE NoParams[k]]

\* The checkboxes of a menu after cb.checked = values.includes(cb.value.trim())
\* on each. populated: populateFilterOptions has made the checkboxes of the
\* menus it fills; before that such a menu has none to set.
restoreMenu(d, id, values, populated) ==
    IF id = "severity" \/ populated
    THEN {o \in Options(id) : trimValue(o) \in values}
    ELSE d[id]

\* A select after select.value = opt.value for each option whose trimmed
\* value is the parameter.
restoreSelect(d, id, value) ==
    IF \E o \in SelectOptions(id) : trimValue(o) = value
    THEN CHOOSE o \in SelectOptions(id) : trimValue(o) = value
    ELSE d[id]

\* The widgets after loadFiltersFromURL has read the parameters.
loadFiltersFromURL(params, d, populated) ==
    [d EXCEPT
        !.currentYearRange =
            IF "yearFrom" \in params.has \/ "yearTo" \in params.has
            THEN <<IF "yearFrom" \in params.has /\ params.yearFrom # 0
                   THEN params.yearFrom ELSE 2012,
                   IF "yearTo" \in params.has /\ params.yearTo # 0
                   THEN params.yearTo ELSE 2024>>
            ELSE @,
        !.severity = IF "severity" \in params.has
                     THEN restoreMenu(d, "severity", params.severity, populated)
                     ELSE @,
        !.crashType = IF "crashType" \in params.has
                      THEN restoreMenu(d, "crashType", params.crashType, populated)
                      ELSE @,
        !.weather = IF "weather" \in params.has
                    THEN restoreSelect(d, "weather", params.weather) ELSE @,
        !.dayNight = IF "dayNight" \in params.has
                     THEN restoreSelect(d, "dayNight", params.dayNight) ELSE @,
        !.duiInvolved = IF "dui" \in params.has
                        THEN restoreSelect(d, "duiInvolved", params.dui) ELSE @,
        !.drugsInvolved = IF "drugs" \in params.has
                          THEN restoreSelect(d, "drugsInvolved", params.drugs)
                          ELSE @,
        !.area = IF "areas" \in params.has
                 THEN restoreMenu(d, "area", params.areas, populated)
                 ELSE @,
        !.dateFrom = IF "dateFrom" \in params.has THEN params.dateFrom ELSE @,
        !.dateTo = IF "dateTo" \in params.has THEN params.dateTo ELSE @,
        !.timeFrom = IF "timeFrom" \in params.has THEN params.timeFrom ELSE @,
        !.timeTo = IF "timeTo" \in params.has THEN params.timeTo ELSE @]

(***************************************************************************)
(* The filter predicates.                                                  *)
(***************************************************************************)
\* A field used as a condition: a missing or empty string is falsy.
Truthy(s) == s # <<>>

\* field && field.trim() !== ''
HasFlag(s) == Truthy(s) /\ Trim(s) # <<>>

YesNoRejects(setting, has) ==
    \/ setting = "Yes" /\ ~has
    \/ setting = "No" /\ has

matchesBasicFilters(r, filters) ==
    LET year == parseInt(r.Year)
    IN  IF NumLt(year, Num(filters.yearFrom)) \/ NumGt(year, Num(filters.yearTo))
        THEN FALSE
        ELSE IF "all" \notin filters.selectedSeverities
                /\ r.CSEF_Severity \notin filters.selectedSeverities
        THEN FALSE
        ELSE IF "all" \notin filters.selectedCrashTypes
                /\ r.Crash_Type \notin filters.selectedCrashTypes
        THEN FALSE
        ELSE IF filters.weather # "all" /\ r.Weather_Cond # filters.weather
        THEN FALSE
        ELSE IF filters.dayNight # "all" /\ r.DayNight # filters.dayNight
        THEN FALSE
        ELSE IF filters.duiInvolved # "all"
                /\ YesNoRejects(filters.duiInvolved, HasFlag(r.DUI_Involved))
        THEN FALSE
        ELSE IF filters.drugsInvolved # "all"
                /\ YesNoRejects(filters.drugsInvolved, HasFlag(r.Drugs_Involved))
        THEN FALSE
        ELSE IF "all" \notin filters.selectedAreas
                /\ r.LGA \notin filters.selectedAreas
        THEN FALSE
        ELSE IF "all" \notin filters.selectedSuburbs
                /\ r.Suburb \notin filters.selectedSuburbs
        THEN FALSE
        ELSE IF "all" \notin filters.selectedRoadSurfaces
                /\ r.Road_Surface \notin filters.selectedRoadSurfaces
        THEN FALSE
        ELSE IF "all" \notin filters.selectedMoistureConds
                /\ r.Moisture_Cond \notin filters.selectedMoistureConds
        THEN FALSE
        ELSE IF filters.rollover # "all"
                /\ YesNoRejects(filters.rollover, HasFlag(r.ROLLOVER))
        THEN FALSE
        ELSE IF filters.fire # "all"
                /\ YesNoRejects(filters.fire, HasFlag(r.FIRE))
        THEN FALSE
        ELSE TRUE

\* The date of a crash as the code rebuilds it, YYYY-MM-DD, from D/M/YYYY.
crashDateOf(dateParts) ==
    dateParts[3] \o <<"-">> \o PadStart2(dateParts[2]) \o <<"-">>
        \o PadStart2(dateParts[1])

\* timeRejects without the branch for a range that crosses midnight.
timeRejects_noWrap(crashTime, filters) ==
    \/ Truthy(filters.timeFrom) /\ StrLt(crashTime, filters.timeFrom)
    \/ Truthy(filters.timeTo) /\ StrGt(crashTime, filters.timeTo)

\* The comparison of the crash time with the time bounds, one of which is set.
timeRejects(crashTime, filters) ==
    IF Truthy(filters.timeFrom) /\ Truthy(filters.timeTo)
    THEN IF StrLe(filters.timeFrom, filters.timeTo)
         THEN StrLt(crashTime, filters.timeFrom) \/ StrGt(crashTime, filters.timeTo)
         ELSE StrLt(crashTime, filters.timeFrom) /\ StrGt(crashTime, filters.timeTo)
    ELSE IF Truthy(filters.timeFrom)
         THEN StrLt(crashTime, filters.timeFrom)
         ELSE IF Truthy(filters.timeTo)
              THEN StrGt(crashTime, filters.timeTo)
              ELSE FALSE

matchesDateTimeFilters(r, filters) ==
    LET crashDateTime == r.Crash_Date_Time
        parts == Split(crashDateTime, " ")
        dateParts == Split(parts[1], "/")
        crashDate == crashDateOf(dateParts)
        dateRejects ==
            IF Len(parts) >= 1
            THEN IF Len(dateParts) = 3
                 THEN \/ Truthy(filters.dateFrom) /\ StrLt(crashDate, filters.dateFrom)
                      \/ Truthy(filters.dateTo) /\ StrGt(crashDate, filters.dateTo)
                 ELSE TRUE
            ELSE TRUE
    IN  IF ~Truthy(crashDateTime)
        THEN ~(Truthy(filters.dateFrom) \/ Truthy(filters.dateTo)
               \/ Truthy(filters.timeFrom) \/ Truthy(filters.timeTo))
        ELSE IF (Truthy(filters.dateFrom) \/ Truthy(filters.dateTo)) /\ dateRejects
        THEN FALSE
        ELSE IF (Truthy(filters.timeFrom) \/ Truthy(filters.timeTo))
                /\ (IF Len(parts) >= 2 THEN timeRejects(parts[2], filters) ELSE TRUE)
        THEN FALSE
        ELSE TRUE

\* The callback of selectedAgeGroups.some(...).
\* The groups with their upper ends left out.
ageGroupMatches_exclusive(group, age) ==
    CASE group = "0-17" -> age >= 0 /\ age < 17
      [] group = "18-25" -> age >= 18 /\ age < 25
      [] group = "26-35" -> age >= 26 /\ age < 35
      [] group = "36-50" -> age >= 36 /\ age < 50
      [] group = "51-65" -> age >= 51 /\ age < 65
      [] group = "66+" -> age >= 66
      [] OTHER -> FALSE

ageGroupMatches(group, age) ==
    CASE group = "0-17" -> age >= 0 /\ age <= 17
      [] group = "18-25" -> age >= 18 /\ age <= 25
      [] group = "26-35" -> age >= 26 /\ age <= 35
      [] group = "36-50" -> age >= 36 /\ age <= 50
      [] group = "51-65" -> age >= 51 /\ age <= 65
      [] group = "66+" -> age >= 66
      [] OTHER -> FALSE

\* The callback of casualties.some(...): one casualty against every active
\* casualty filter.
casualtyMatches(casualty, filters) ==
    LET hasRoadUserFilter == "all" \notin filters.selectedRoadUsers
        hasAgeFilter == "all" \notin filters.selectedAgeGroups
        hasSexFilter == "all" \notin filters.selectedSexes
        hasInjuryFilter == "all" \notin filters.selectedInjuries
        hasSeatBeltFilter == "all" \notin filters.selectedSeatBelts
        hasHelmetFilter == "all" \notin filters.selectedHelmets
        age == parseInt(casualty.AGE)
    IN  IF hasRoadUserFilter /\ casualty.Casualty_Type \notin filters.selectedRoadUsers
        THEN FALSE
        ELSE IF hasAgeFilter /\ isNaN(age)
        THEN FALSE
        ELSE IF hasAgeFilter
                /\ ~\E group \in filters.selectedAgeGroups :
                        ageGroupMatches(group, age.val)
        THEN FALSE
        ELSE IF hasSexFilter /\ casualty.Sex \notin filters.selectedSexes
        THEN FALSE
        ELSE IF hasInjuryFilter /\ casualty.Injury_Extent \notin filters.selectedInjuries
        THEN FALSE
        ELSE IF hasSeatBeltFilter /\ casualty.Seat_Belt \notin filters.selectedSeatBelts
        THEN FALSE
        ELSE IF hasHelmetFilter /\ casualty.HELMET \notin filters.selectedHelmets
        THEN FALSE
        ELSE TRUE

\* The filters with every casualty selection but one back at 'all'.
onlyCasualtyFilter(filters, name) ==
    [f \in DOMAIN filters |->
        IF f \in {"selectedRoadUsers", "selectedAgeGroups", "selectedSexes",
                  "selectedInjuries", "selectedSeatBelts", "selectedHelmets"}
           /\ f # name
        THEN {"all"}
        ELSE filters[f]]

\* matchesCasualtyFilters with each active filter matched on its own, by
\* possibly different casualties.
matchesCasualtyFilters_independent(r, filters) ==
    /\ Len(r._casualties) = 0 =>
            \A name \in {"selectedRoadUsers", "selectedAgeGroups", "selectedSexes",
                          "selectedInjuries", "selectedSeatBelts", "selectedHelmets"} :
                "all" \in filters[name]
    /\ \A name \in {"selectedRoadUsers", "selectedAgeGroups", "selectedSexes",
                     "selectedInjuries", "selectedSeatBelts", "selectedHelmets"} :
            "all" \notin filters[name] =>
                \E i \in 1..Len(r._casualties) :
                    casualtyMatches(r._casualties[i], onlyCasualtyFilter(filters, name))

matchesCasualtyFilters(r, filters) ==
    LET casualties == r._casualties
        hasAnyCasualtyFilter ==
            \/ "all" \notin filters.selectedRoadUsers
            \/ "all" \notin filters.selectedAgeGroups
            \/ "all" \notin filters.selectedSexes
            \/ "all" \notin filters.selectedInjuries
            \/ "all" \notin filters.selectedSeatBelts
            \/ "all" \notin filters.selectedHelmets
    IN  IF Len(casualties) = 0
        THEN /\ "all" \in filters.selectedRoadUsers
             /\ "all" \in filters.selectedAgeGroups
             /\ "all" \in filters.selectedSexes
             /\ "all" \in filters.selectedInjuries
             /\ "all" \in filters.selectedSeatBelts
             /\ "all" \in filters.selectedHelmets
        ELSE IF ~hasAnyCasualtyFilter THEN TRUE
        ELSE \E i \in 1..Len(casualties) : casualtyMatches(casualties[i], filters)

\* The earlier generation's filter looking at the first casualty only.
earlierMatchesCasualtyFilters_first(r, filters) ==
    LET casualties == IF r._casualties = <<>> THEN <<>>
                      ELSE <<Head(r._casualties)>>
    IN  \A name \in {"selectedRoadUsers", "selectedSexes", "selectedInjuries",
                      "selectedSeatBelts", "selectedHelmets", "selectedAgeGroups"} :
            "all" \notin filters[name] =>
                \E i \in 1..Len(casualties) :
                    casualtyMatches(casualties[i], onlyCasualtyFilter(filters, name))

\* matchesCasualtyFilters of the earlier generation of the script: one
\* block for each filter, each with its own casualties.some(...).
earlierMatchesCasualtyFilters(r, filters) ==
    LET casualties == r._casualties
        some(match(_)) == \E i \in 1..Len(casualties) : match(casualties[i])
        byRoadUser(c) == c.Casualty_Type \in filters.selectedRoadUsers
        byAge(c) ==
            LET age == parseInt(c.AGE)
            IN  IF isNaN(age) THEN FALSE
                ELSE \E group \in filters.selectedAgeGroups :
                        CASE group = "0-17" -> age.val >= 0 /\ age.val <= 17
                          [] group = "18-25" -> age.val >= 18 /\ age.val <= 25
                          [] group = "26-35" -> age.val >= 26 /\ age.val <= 35
                          [] group = "36-50" -> age.val >= 36 /\ age.val <= 50
                          [] group = "51-65" -> age.val >= 51 /\ age.val <= 65
                          [] group = "66+" -> age.val >= 66
                          [] OTHER -> FALSE
        bySex(c) == c.Sex \in filters.selectedSexes
        byInjury(c) == c.Injury_Extent \in filters.selectedInjuries
        bySeatBelt(c) == c.Seat_Belt \in filters.selectedSeatBelts
        byHelmet(c) == c.HELMET \in filters.selectedHelmets
    IN  IF "all" \notin filters.selectedRoadUsers
           /\ (Len(casualties) = 0 \/ ~some(byRoadUser))
        THEN FALSE
        ELSE IF "all" \notin filters.selectedAgeGroups
                /\ (Len(casualties) = 0 \/ ~some(byAge))
        THEN FALSE
        ELSE IF "all" \notin filters.selectedSexes
                /\ (Len(casualties) = 0 \/ ~some(bySex))
        THEN FALSE
        ELSE IF "all" \notin filters.selectedInjuries
                /\ (Len(casualties) = 0 \/ ~some(byInjury))
        THEN FALSE
        ELSE IF "all" \notin filters.selectedSeatBelts
                /\ (Len(casualties) = 0 \/ ~some(bySeatBelt))
        THEN FALSE
        ELSE IF "all" \notin filters.selectedHelmets
                /\ (Len(casualties) = 0 \/ ~some(byHelmet))
        THEN FALSE
        ELSE TRUE

HEAVY_VEHICLE_TYPES ==
    {"BDOUBLE - ROAD TRAIN", "SEMI TRAILER", "RIGID TRUCK LGE GE 4.5T",
     "OMNIBUS", "Light Truck LT 4.5T"}

vehicleYearMatches(range, year) ==
    CASE range = "pre-2000" -> year < 2000
      [] range = "2000-2010" -> year >= 2000 /\ year <= 2010
      [] range = "2011-2020" -> year >= 2011 /\ year <= 2020
      [] range = "2021+" -> year >= 2021
      [] OTHER -> FALSE

occupantsMatches(value, occupants) ==
    CASE value = "1" -> occupants = 1
      [] value = "2" -> occupants = 2
      [] value = "3" -> occupants = 3
      [] value = "4" -> occupants = 4
      [] value = "5+" -> occupants >= 5
      [] OTHER -> FALSE

\* The callback of units.some(...): one unit against every active
\* multi-select unit filter.
unitMatches(unit, filters) ==
    LET hasVehicleTypeFilter == "all" \notin filters.selectedVehicles
        hasVehicleYearFilter == "all" \notin filters.selectedVehicleYears
        hasOccupantsFilter == "all" \notin filters.selectedOccupants
        hasLicenseTypeFilter == "all" \notin filters.selectedLicenseTypes
        hasRegStateFilter == "all" \notin filters.selectedRegStates
        hasDirectionFilter == "all" \notin filters.selectedDirections
        hasMovementFilter == "all" \notin filters.selectedMovements
        year == parseInt(unit.Veh_Year)
        occupants == parseInt(unit.Number_Occupants)
    IN  IF hasVehicleTypeFilter /\ unit.Unit_Type \notin filters.selectedVehicles
        THEN FALSE
        ELSE IF hasVehicleYearFilter
                /\ (isNaN(year)
                    \/ ~\E range \in filters.selectedVehicleYears :
                            vehicleYearMatches(range, year.val))
        THEN FALSE
        ELSE IF hasOccupantsFilter
                /\ (isNaN(occupants)
                    \/ occupants.val = 0
                    \/ ~\E value \in filters.selectedOccupants :
                            occupantsMatches(value, occupants.val))
        THEN FALSE
        ELSE IF hasLicenseTypeFilter /\ unit.Licence_Type \notin filters.selectedLicenseTypes
        THEN FALSE
        ELSE IF hasRegStateFilter /\ unit.Veh_Reg_State \notin filters.selectedRegStates
        THEN FALSE
        ELSE IF hasDirectionFilter
                /\ unit.Direction_Of_Travel \notin filters.selectedDirections
        THEN FALSE
        ELSE IF hasMovementFilter /\ unit.Unit_Movement \notin filters.selectedMovements
        THEN FALSE
        ELSE TRUE

matchesUnitsFilters(r, filters) ==
    LET units == r._units
        hasAnyMultiSelectUnitFilter ==
            \/ "all" \notin filters.selectedVehicles
            \/ "all" \notin filters.selectedVehicleYears
            \/ "all" \notin filters.selectedOccupants
            \/ "all" \notin filters.selectedLicenseTypes
            \/ "all" \notin filters.selectedRegStates
            \/ "all" \notin filters.selectedDirections
            \/ "all" \notin filters.selectedMovements
        hasHeavyVehicle ==
            \E i \in 1..Len(units) : units[i].Unit_Type \in HEAVY_VEHICLE_TYPES
        hasTowing == \E i \in 1..Len(units) : HasFlag(units[i].TOWING)
    IN  IF filters.heavyVehicle # "all" /\ Len(units) = 0
        THEN filters.heavyVehicle # "yes"
        ELSE IF filters.heavyVehicle = "yes" /\ ~hasHeavyVehicle THEN FALSE
        ELSE IF filters.heavyVehicle = "no" /\ hasHeavyVehicle THEN FALSE
        ELSE IF filters.towing # "all" /\ Len(units) = 0
        THEN filters.towing # "Yes"
        ELSE IF filters.towing = "Yes" /\ ~hasTowing THEN FALSE
        ELSE IF filters.towing = "No" /\ hasTowing THEN FALSE
        ELSE IF ~hasAnyMultiSelectUnitFilter THEN TRUE
        ELSE IF Len(units) = 0 THEN FALSE
        ELSE \E i \in 1..Len(units) : unitMatches(units[i], filters)

\* The callback of crashData.filter(...) in applyFilters.
matchesAllFilters(r, filters) ==
    /\ matchesBasicFilters(r, filters)
    /\ matchesDateTimeFilters(r, filters)
    /\ matchesCasualtyFilters(r, filters)
    /\ matchesUnitsFilters(r, filters)

(***************************************************************************)
(* The records and widget settings the predicates are run on.             *)
(***************************************************************************)
SeqsUpTo(S, n) == UNION {[1..k -> S] : k \in 0..n}

Casualty(type, age, sex, injury, belt, helmet) ==
    [Casualty_Type |-> type, AGE |-> age, Sex |-> sex, Injury_Extent |-> injury,
     Seat_Belt |-> belt, HELMET |-> helmet]

CasualtySamples ==
    {Casualty("Driver", <<"1", "6">>, "Male", "Minor", "Yes", "Worn"),
     Casualty("Pedestrian", <<"4", "0">>, "Female", "Fatal", "No", "Not Worn"),
     Casualty("Pedestrian", <<"x">>, "Male", "Minor", "No", "Worn"),
     Casualty("Driver", <<"7", "0">>, "Female", "Fatal", "Yes", "Not Worn"),
     Casualty("Driver", <<"4", "0">>, "Male", "Fatal", "", ""),
     Casualty("Pedestrian", <<"1", "6">>, "Female", "Minor", "Yes", "Worn")}

Unit(type, year, occupants, towing, licence, reg, direction, movement) ==
    [Unit_Type |-> type, Veh_Year |-> year, Number_Occupants |-> occupants,
     TOWING |-> towing, Licence_Type |-> licence, Veh_Reg_State |-> reg,
     Direction_Of_Travel |-> direction, Unit_Movement |-> movement]

UnitSamples ==
    {Unit("Motor Cars - Sedan", <<"2", "0", "1", "5">>, <<"1">>, <<>>,
          "Full", "SA", "North", "Straight Ahead"),
     Unit("SEMI TRAILER", <<"1", "9", "9", "8">>, <<"2">>, <<"T">>,
          "Full", "VIC", "South", "Right Turn"),
     Unit("Motor Cars - Sedan", <<>>, <<"0">>, <<" ">>,
          "Provisional", "SA", "South", "Straight Ahead"),
     Unit("Motor Cars - Sedan", <<"2", "0", "0", "5">>, <<"6">>, <<"C">>,
          "Provisional", "VIC", "North", "Right Turn")}

Date_15_06_2020 == <<"1", "5", "/", "0", "6", "/", "2", "0", "2", "0">>
Date_1_6_2019 == <<"1", "/", "6", "/", "2", "0", "1", "9">>
Date_dashes == <<"1", "5", "-", "0", "6", "-", "2", "0", "2", "0">>
Date_letters == <<"x", "x", "/", "y", "y", "/", "z", "z", "z", "z">>
Time_2330 == <<"2", "3", ":", "3", "0">>
Time_0100 == <<"0", "1", ":", "0", "0">>
Time_1200 == <<"1", "2", ":", "0", "0">>
Time_0800 == <<"0", "8", ":", "0", "0">>
Time_1700 == <<"1", "7", ":", "0", "0">>
Time_2200 == <<"2", "2", ":", "0", "0">>
Time_0200 == <<"0", "2", ":", "0", "0">>
Time_letters == <<"x", "x">>
Iso_2020_01_01 == <<"2", "0", "2", "0", "-", "0", "1", "-", "0", "1">>
Iso_2020_12_31 == <<"2", "0", "2", "0", "-", "1", "2", "-", "3", "1">>
Sp == <<" ">>

\* Values of the 'Crash Date Time' column: well formed, absent, and broken
\* in the date part, in the time part, or between them.
DateTimeSamples ==
    {<<>>,
     Date_15_06_2020 \o Sp \o Time_2330,
     Date_15_06_2020 \o Sp \o Time_0100,
     Date_15_06_2020 \o Sp \o Time_1200,
     Date_1_6_2019 \o Sp \o Time_0800,
     Date_15_06_2020,
     Date_dashes \o Sp \o Time_1200,
     Date_letters \o Sp \o Time_1200,
     Date_15_06_2020 \o Sp \o Time_letters,
     Date_15_06_2020 \o Sp \o Sp \o Time_1200}

Y2011 == <<"2", "0", "1", "1">>
Y2012 == <<"2", "0", "1", "2">>
Y2020 == <<"2", "0", "2", "0">>
Y2024 == <<"2", "0", "2", "4">>
Y2025 == <<"2", "0", "2", "5">>

\* _coords is the cached [lat, lng] pair, or <<>> for null.
DefaultRow ==
    [REPORT_ID |-> "R0", Year |-> Y2020, CSEF_Severity |-> "1: PDO",
     Crash_Type |-> "Rear End", Weather_Cond |-> "Not Raining",
     DayNight |-> "Daylight", DUI_Involved |-> <<>>, Drugs_Involved |-> <<>>,
     LGA |-> "CITY OF MARION", Suburb |-> "MARION", Road_Surface |-> "Sealed",
     Moisture_Cond |-> "Dry", ROLLOVER |-> <<>>, FIRE |-> <<>>,
     Crash_Date_Time |-> Date_15_06_2020 \o Sp \o Time_1200,
     Total_Fats |-> <<"0">>, Total_SI |-> <<"0">>, Total_MI |-> <<"0">>,
     _casualties |-> <<>>, _units |-> <<>>, _coords |-> <<-35, 138>>]

\* A crash whose crash-level columns differ from DefaultRow's or are blank.
OtherRow ==
    [DefaultRow EXCEPT
        !.CSEF_Severity = "4: Fatal", !.Crash_Type = "Hit Pedestrian",
        !.Weather_Cond = "Raining", !.DayNight = "Night",
        !.Drugs_Involved = <<"Y">>, !.LGA = "", !.Suburb = "GLENELG",
        !.Road_Surface = "", !.Moisture_Cond = "Wet", !.ROLLOVER = <<"Y">>,
        !.FIRE = <<" ">>, !.Total_Fats = <<"1">>, !._coords = <<>>]

\* Casualty lists against casualty filter settings.
CasualtyCase ==
    \E cs \in SeqsUpTo(CasualtySamples, MaxCasualties),
        ru \in {{"all"}, {"Pedestrian"}, {"Driver", "Pedestrian"}},
        ag \in {{"all"}, {"0-17"}, {"36-50"}, {"0-17", "66+"}},
        sx \in {{"all"}, {"Female"}},
        inj \in {{"all"}, {"Fatal"}},
        sb \in {{"all"}, {"No"}},
        he \in {{"all"}, {"Not Worn"}} :
        /\ row = [DefaultRow EXCEPT !._casualties = cs]
        /\ dom = [DefaultDom EXCEPT !.roadUserType = ru, !.ageGroup = ag,
                             !.casualtySex = sx, !.injuryExtent = inj,
                             !.seatBelt = sb, !.helmet = he]

\* Unit lists against unit filter settings.
UnitCase ==
    \E us \in SeqsUpTo(UnitSamples, MaxUnits),
        hv \in {"all", "yes", "no"},
        tw \in {"all", "Yes", "No"},
        vt \in {{"all"}, {"Motor Cars - Sedan"}},
        vy \in {{"all"}, {"2000-2010", "2011-2020"}},
        oc \in {{"all"}, {"1", "5+"}},
        lt \in {{"all"}, {"Provisional"}},
        rs \in {{"all"}, {"VIC"}},
        dt \in {{"all"}, {"North"}},
        um \in {{"all"}, {"Right Turn"}} :
        /\ row = [DefaultRow EXCEPT !._units = us]
        /\ dom = [DefaultDom EXCEPT !.heavyVehicle = hv, !.towing = tw,
                             !.vehicleType = vt, !.vehicleYear = vy,
                             !.occupants = oc, !.licenseType = lt,
                             !.vehRegState = rs, !.directionTravel = dt,
                             !.unitMovement = um]

\* 'Crash Date Time' values against date and time bounds.
DateTimeCase ==
    \E dt \in DateTimeSamples,
        df \in {<<>>, Iso_2020_01_01},
        dto \in {<<>>, Iso_2020_12_31},
        tf \in {<<>>, Time_0800, Time_2200},
        tt \in {<<>>, Time_0200, Time_1700} :
        /\ row = [DefaultRow EXCEPT !.Crash_Date_Time = dt]
        /\ dom = [DefaultDom EXCEPT !.dateFrom = df, !.dateTo = dto,
                             !.timeFrom = tf, !.timeTo = tt]

\* Crash-level columns against one crash-level filter at a time, under two
\* year ranges.
BasicSettings ==
    {DefaultDom,
     [DefaultDom EXCEPT !.severity = {"4: Fatal"}],
     [DefaultDom EXCEPT !.crashType = {"Rear End"}],
     [DefaultDom EXCEPT !.weather = "Raining"],
     [DefaultDom EXCEPT !.dayNight = "Night"],
     [DefaultDom EXCEPT !.duiInvolved = "Yes"],
     [DefaultDom EXCEPT !.duiInvolved = "No"],
     [DefaultDom EXCEPT !.drugsInvolved = "Yes"],
     [DefaultDom EXCEPT !.drugsInvolved = "No"],
     [DefaultDom EXCEPT !.area = {"CITY OF MARION"}],
     [DefaultDom EXCEPT !.suburb = {"GLENELG"}],
     [DefaultDom EXCEPT !.roadSurface = {"Sealed"}],
     [DefaultDom EXCEPT !.moistureCond = {"Wet"}],
     [DefaultDom EXCEPT !.rollover = "Yes"],
     [DefaultDom EXCEPT !.rollover = "No"],
     [DefaultDom EXCEPT !.fire = "Yes"],
     [DefaultDom EXCEPT !.fire = "No"]}

BasicCase ==
    \E r \in {DefaultRow, OtherRow},
        y \in {<<>>, Y2011, Y2012, Y2020, Y2024, Y2025},
        dui \in {<<>>, <<" ">>, <<"Y">>},
        d \in BasicSettings,
        yr \in {<<2012, 2024>>, <<2015, 2020>>} :
        /\ row = [r EXCEPT !.Year = y, !.DUI_Involved = dui]
        /\ dom = [d EXCEPT !.currentYearRange = yr]

\* Every multi-valued widget in turn, holding any selection of its options
\* (a multi-select's 'all' option included), the other widgets at their
\* defaults, against crashes with and without casualties and units.
WidgetRows ==
    {DefaultRow, OtherRow,
     [DefaultRow EXCEPT
        !._casualties = <<Casualty("Driver", <<"1", "6">>, "Male", "Minor", "Yes", "Worn")>>,
        !._units = <<Unit("Motor Cars - Sedan", <<"2", "0", "1", "5">>, <<"1">>, <<>>,
                          "Full", "SA", "North", "Straight Ahead")>>],
     [OtherRow EXCEPT
        !._casualties = <<Casualty("Driver", <<"4", "0">>, "Male", "Fatal", "", "")>>,
        !._units = <<Unit("Motor Cars - Sedan", <<>>, <<"0">>, <<" ">>,
                          "Provisional", "SA", "South", "Straight Ahead")>>]}

Selections(id) ==
    IF id \in MenuIds THEN SUBSET Options(id)
    ELSE SUBSET (Options(id) \cup {"all"})

WidgetCase ==
    \E r \in WidgetRows, id \in MenuIds \cup SelectIds :
        \E sel \in Selections(id) :
            /\ row = r
            /\ dom = [DefaultDom EXCEPT ![id] = sel]

\* Area names as the crash CSV may hold them: blank, aliases, canonical
\* names, a name the alias table does not know, and spellings in lower case
\* or with padding; against the area filter off and on.
AreaNames ==
    {"", " ", "CC MARION.", "CC MITCHAM.", "CITY OF MARION", "DC UNKNOWN",
     "cc marion.", " CITY OF MARION "}

AreaNameCase ==
    \E name \in AreaNames,
        d \in {DefaultDom, [DefaultDom EXCEPT !.area = {"CITY OF MARION"}]} :
        /\ row = [DefaultRow EXCEPT !.LGA = name]
        /\ dom = d

NoOut ==
    [basic |-> FALSE, dateTime |-> FALSE, casualty |-> FALSE, units |-> FALSE,
     accepted |-> FALSE]

(***************************************************************************)
(* The page after the data sets are loaded and linked: the filtered set,   *)
(* the statistics, the map's layers, the loading overlay and the callbacks *)
(* the browser holds for setTimeout and requestAnimationFrame.             *)
(***************************************************************************)
\* Records addMarkers handles between two yields (2000 in the source).
chunkSize == 1

\* Clicks and searches of the user in one behaviour.
MaxUserActions == 3

\* The loaded crashes: one without an area name, one without coordinates,
\* and two whose area names are aliases of one council.
crashData ==
    <<[DefaultRow EXCEPT !.REPORT_ID = "R1", !.CSEF_Severity = "2: MI",
                         !.LGA = "", !.Total_MI = <<"1">>],
      [DefaultRow EXCEPT !.REPORT_ID = "R2", !.CSEF_Severity = "4: Fatal",
                         !.LGA = "CC MARION.", !.Total_Fats = <<"1">>,
                         !._coords = <<>>],
      [DefaultRow EXCEPT !.REPORT_ID = "R3", !.CSEF_Severity = "3: SI",
                         !.LGA = "CITY OF MARION", !.Total_SI = <<"2">>,
                         !._coords = <<-34, 139>>]>>

\* A list of crash records is a list of references into crashData.
CrashRefs == 1..Len(crashData)

Min(a, b) == IF a <= b THEN a ELSE b

\* The crash CSV has been parsed into the crashData global.
CrashLoaded == pc \notin {"crash", "crashFailed"}

\* linkCrashData has run: each crash holds its casualties, its units and
\* its cached coordinates.
Linked ==
    pc \notin {"crash", "crashFailed", "casualty", "casualtyFailed", "units",
               "unitsFailed"}

\* A crash record before linkCrashData: _casualties, _units and _coords are
\* undefined, which the readers of these fields take as none.
unlinked(r) == [r EXCEPT !._casualties = <<>>, !._units = <<>>, !._coords = <<>>]

\* The crashData global as the page holds it now.
loadedCrashData ==
    IF ~CrashLoaded THEN <<>>
    ELSE IF ~Linked THEN [i \in CrashRefs |-> unlinked(crashData[i])]
    ELSE crashData

\* The filter with its result in the reverse of the order of crashData.
filterCrashData_reversed(d) ==
    LET filters == getFilterValues(d)
        kept == SelectSeq([i \in 1..Len(loadedCrashData) |-> i],
                          LAMBDA i : matchesAllFilters(loadedCrashData[i], filters))
    IN  [k \in 1..Len(kept) |-> kept[Len(kept) + 1 - k]]

\* crashData.filter(row => matchesBasicFilters(row, filters) && ...)
filterCrashData(d) ==
    LET filters == getFilterValues(d)
    IN  SelectSeq([i \in 1..Len(loadedCrashData) |-> i],
                  LAMBDA i : matchesAllFilters(loadedCrashData[i], filters))

\* The settings of the widgets the user applies.
FilterSettings ==
    {DefaultDom,
     [DefaultDom EXCEPT !.severity = {"3: SI", "4: Fatal"}],
     [DefaultDom EXCEPT !.area = {"CITY OF MARION"}]}

\* The crashes within the radius of a searched location.
SearchAreas == {<<1>>, <<1, 3>>}

\* parseInt(field || 0)
parseCount(s) == IF Truthy(s) THEN parseInt(s) ELSE Num(0)

NumAdd(a, b) == IF a.nan \/ b.nan THEN NaN ELSE Num(a.val + b.val)

RECURSIVE sumCounts(_, _)
sumCounts(fd, field) ==
    IF fd = <<>> THEN Num(0)
    ELSE NumAdd(sumCounts(SubSeq(fd, 1, Len(fd) - 1), field),
                parseCount(crashData[fd[Len(fd)]][field]))

\* The totals taken over the records that have an area name and
\* coordinates only.
updateStatistics_located(fd) ==
    LET kept == SelectSeq(fd, LAMBDA i : /\ crashData[i].LGA \notin {"", " "}
                                        /\ crashData[i]._coords # <<>>)
    IN  [totalCrashes |-> Len(kept),
         totalFatalities |-> sumCounts(kept, "Total_Fats"),
         totalSerious |-> sumCounts(kept, "Total_SI"),
         totalMinor |-> sumCounts(kept, "Total_MI")]

\* The four totals updateStatistics writes to the page.
updateStatistics(fd) ==
    [totalCrashes |-> Len(fd),
     totalFatalities |-> sumCounts(fd, "Total_Fats"),
     totalSerious |-> sumCounts(fd, "Total_SI"),
     totalMinor |-> sumCounts(fd, "Total_MI")]

\* name.toUpperCase().trim() of the area names that are not upper case and
\* trimmed already.
upperTrimmed ==
    ("cc marion." :> "CC MARION.") @@ (" CITY OF MARION " :> "CITY OF MARION")
        @@ (" " :> "")

lgaMapping ==
    ("THE DC OF FRANKLIN HARBOUR" :> "DC FRANKLIN HARBOR.") @@
    ("THE DC OF MOUNT REMARKABLE" :> "DC MT.REMARKABLE.") @@
    ("MOUNT BARKER DISTRICT COUNCIL" :> "DC MT.BARKER.") @@
    ("CC MITCHAM." :> "CITY OF MITCHAM") @@
    ("CC MARION." :> "CITY OF MARION") @@
    ("CC OF NORWOOD,PAYNEHAM & ST PETERS" :> "THE CITY OF NORWOOD PAYNEHAM AND ST PETERS") @@
    ("CC CAMPBELLTOWN." :> "CAMPBELLTOWN CITY COUNCIL") @@
    ("CC MT.GAMBIER." :> "CITY OF MOUNT GAMBIER") @@
    ("CC PT.AUGUSTA." :> "PORT AUGUSTA CITY COUNCIL") @@
    ("CC WHYALLA." :> "THE CORPORATION OF THE CITY OF WHYALLA") @@
    ("DC KIMBA." :> "THE DC OF KIMBA") @@
    ("DC CLEVE." :> "THE DC OF CLEVE") @@
    ("DC TUMBY BAY." :> "THE DC OF TUMBY BAY") @@
    ("DC LOWER EYRE PENINSULA" :> "LOWER EYRE COUNCIL") @@
    ("DC ELLISTON." :> "DC OF ELLISTON") @@
    ("DC STREAKY BAY." :> "THE DC OF STREAKY BAY") @@
    ("DC WUDINNA. (DC LE HUNTE.)" :> "WUDINNA DISTRICT COUNCIL") @@
    ("DC CEDUNA." :> "THE DC OF CEDUNA") @@
    ("LOXTON WAIKERIE DISTRICT COUNCIL" :> "THE DC OF LOXTON WAIKERIE") @@
    ("DISTRICT COUNCIL OF GRANT" :> "THE DC OF GRANT") @@
    ("DC ROBE." :> "DC OF ROBE") @@
    ("DC KINGSTON." :> "KINGSTON DC") @@
    ("DC TATIARA." :> "TATIARA DC") @@
    ("DC NARACOORTE & LUCINDALE." :> "NARACOORTE LUCINDALE COUNCIL") @@
    ("SOUTHERN MALLEE DISTRICT COUNCIL" :> "SOUTHERN MALLEE DC") @@
    ("DC KAROONDA EAST MURRAY." :> "THE DC OF KAROONDA EAST MURRAY") @@
    ("RC MURRAY BRIDGE." :> "THE RURAL CITY OF MURRAY BRIDGE") @@
    ("DC VICTOR HARBOR." :> "CITY OF VICTOR HARBOR") @@
    ("DC YANKALILLA." :> "THE DC OF YANKALILLA") @@
    ("THE ADELAIDE HILLS COUNCIL" :> "ADELAIDE HILLS COUNCIL") @@
    ("MID MURRAY DISTRICT COUNCIL" :> "MID MURRAY COUNCIL") @@
    ("THE BAROSSA COUNCIL." :> "THE BAROSSA COUNCIL") @@
    ("CT GAWLER." :> "TOWN OF GAWLER") @@
    ("CITY OF PLAYFORD." :> "CITY OF PLAYFORD") @@
    ("DC MALLALA." :> "ADELAIDE PLAINS COUNCIL") @@
    ("WALKERVILLE TOWN COUNCIL" :> "THE CORPORATION OF THE TOWN OF WALKERVILLE") @@
    ("COPPER COAST DISTRICT COUNCIL" :> "COPPER COAST COUNCIL") @@
    ("BARUNGA WEST DISTRICT COUNCIL" :> "BARUNGA WEST COUNCIL") @@
    ("NORTHERN AREAS DISTRICT COUNCIL" :> "NORTHERN AREAS COUNCIL") @@
    ("CLARE AND GILBERT VALLEYS DISTRICT COUNCIL" :> "CLARE AND GILBERT VALLEYS COUNCIL") @@
    ("DC OF ORROROO/CARRIETON" :> "THE DC OF ORROROO CARRIETON") @@
    ("DC OF PETERBOROUGH" :> "THE DC OF PETERBOROUGH") @@
    ("THE FLINDERS RANGES COUNCIL." :> "THE FLINDERS RANGES COUNCIL") @@
    ("DC CEDUNA" :> "THE DC OF CEDUNA") @@
    ("REGIONAL COUNCIL OF GOYDER" :> "THE REGIONAL COUNCIL OF GOYDER") @@
    ("DC RENMARK PARINGA" :> "RENMARK PARINGA COUNCIL") @@
    ("UIA RIVERLAND" :> "UNINCORP (EASTERN)") @@
    ("PT.PIRIE CITY & DIST. COUNCIL" :> "PORT PIRIE REGIONAL COUNCIL") @@
    ("MC ROXBY DOWNS" :> "MUNICIPAL COUNCIL OF ROXBY DOWNS") @@
    ("DC COOBER PEDY" :> "THE DC OF COOBER PEDY") @@
    ("CC PT.LINCOLN." :> "CITY OF PORT LINCOLN")

\* A table read in both directions: an alias gives its canonical name and
\* a canonical name one of its aliases.
normalizeLGAName_bothWays(name) ==
    IF name \in DOMAIN lgaMapping THEN lgaMapping[name]
    ELSE IF \E k \in DOMAIN lgaMapping : lgaMapping[k] = name
    THEN CHOOSE k \in DOMAIN lgaMapping : lgaMapping[k] = name
    ELSE name

normalizeLGAName(name) ==
    IF name = "" THEN ""
    ELSE LET preprocessed ==
                 IF name \in DOMAIN upperTrimmed THEN upperTrimmed[name] ELSE name
         IN  IF preprocessed \in DOMAIN lgaMapping
             THEN lgaMapping[preprocessed]
             ELSE preprocessed

\* lga && lga.trim()
hasAreaName(r) == r.LGA \notin {"", " "}

\* The weight addDensityMap gives a severity.
\* A weight that tells only the fatal crashes from the rest.
severityWeight_fatalOnly(severity) ==
    IF severity = "4: Fatal" THEN 4 ELSE 1

severityWeight(severity) ==
    IF severity = "4: Fatal" THEN 4
    ELSE IF severity = "3: SI" THEN 3
    ELSE IF severity = "2: MI" THEN 2
    ELSE 1

\* densityData of addDensityMap: one [lat, lng, weight] for each record of
\* the filtered set that has cached coordinates.
densitySamples(rows) ==
    LET kept == SelectSeq(rows, LAMBDA r : r._coords # <<>>)
    IN  [k \in 1..Len(kept) |->
            <<kept[k]._coords[1], kept[k]._coords[2],
              severityWeight(kept[k].CSEF_Severity)>>]

densityData(fd) ==
    densitySamples([k \in 1..Len(fd) |-> loadedCrashData[fd[k]]])

\* lgaCounts and lgaCountsNormalized of addChoropleth.
lgaCounts(fd) ==
    LET named == {i \in 1..Len(fd) : hasAreaName(crashData[fd[i]])}
    IN  [lga \in {crashData[fd[i]].LGA : i \in named} |->
            Cardinality({i \in named : crashData[fd[i]].LGA = lga})]

lgaCountsNormalized(fd) ==
    LET named == {i \in 1..Len(fd) : hasAreaName(crashData[fd[i]])}
    IN  [lga \in {normalizeLGAName(crashData[fd[i]].LGA) : i \in named} |->
            Cardinality({i \in named :
                            normalizeLGAName(crashData[fd[i]].LGA) = lga})]

\* The areas of the boundary data, by the name getLGAName gives each.
lgaFeatures == {"CITY OF MARION", "CITY OF MITCHAM", "CITY OF ONKAPARINGA"}

\* addChoropleth with the boundaries always taken as present.
choroplethData_boundariesOnly(fd) ==
    LET normalized == lgaCountsNormalized(fd)
    IN  [lgaCounts |-> lgaCounts(fd),
         lgaCountsNormalized |-> normalized,
         kind |-> "geoJSON",
         shown |-> [f \in lgaFeatures |->
                      IF normalizeLGAName(f) \in DOMAIN normalized
                      THEN normalized[normalizeLGAName(f)] ELSE 0]]

\* The layer addChoropleth builds: over the boundaries one polygon for each
\* area of the boundary data, showing the count of its normalized name; with
\* no boundaries one circle for each raw area name that has a record with
\* coordinates, showing lgaCounts of that name.
choroplethData(fd) ==
    LET counts == lgaCounts(fd)
        normalized == lgaCountsNormalized(fd)
        located == {crashData[fd[i]].LGA :
                       i \in {k \in 1..Len(fd) :
                                 /\ hasAreaName(crashData[fd[k]])
                                 /\ crashData[fd[k]]._coords # <<>>}}
    IN  [lgaCounts |-> counts,
         lgaCountsNormalized |-> normalized,
         kind |-> IF lgaBoundaries = "loaded" THEN "geoJSON" ELSE "circles",
         shown |->
             IF lgaBoundaries = "loaded"
             THEN [f \in lgaFeatures |->
                      IF normalizeLGAName(f) \in DOMAIN normalized
                      THEN normalized[normalizeLGAName(f)] ELSE 0]
             ELSE [lga \in located |-> counts[lga]]]

\* A callback the browser holds: a timer (delay 0 or 100 ms) or an
\* animation-frame request. processChunk carries its closure.
Task(kind, delay) ==
    [kind |-> kind, delay |-> delay, processedCount |-> 0, totalMarkers |-> 0,
     callback |-> "none", visits |-> <<>>]

\* visits: the indices (from 1) the load has read so far, in order.
ChunkTask(processedCount, totalMarkers, callback, visits) ==
    [kind |-> "processChunk", delay |-> 0, processedCount |-> processedCount,
     totalMarkers |-> totalMarkers, callback |-> callback, visits |-> visits]

\* The numbers a to b in order.
Range(a, b) == [k \in 1..(b - a + 1) |-> a + k - 1]

RemoveAt(s, i) == SubSeq(s, 1, i - 1) \o SubSeq(s, i + 1, Len(s))

\* The timer at position i may fire next: timers of equal delay fire in the
\* order they were set, and a timer not before a timer of a shorter delay
\* that was set earlier.
Runnable(i) ==
    /\ i \in 1..Len(timers)
    /\ \A j \in 1..(i - 1) : timers[j].delay > timers[i].delay

NoMarkers == [i \in CrashRefs |-> 0]

\* A layer object not on the map yet.
NewLayerId(onMap) ==
    CHOOSE n \in 1..(Cardinality(onMap) + 1) : \A l \in onMap : l.id # n

\* processChunk without the call of the callback after the last chunk.
processChunk_noCallback(ml, tq, fd, processedCount, totalMarkers, callback, visits) ==
    LET endIndex == Min(processedCount + chunkSize, totalMarkers)
    IN  [threw |-> FALSE, called |-> FALSE, visits |-> visits,
         markersLayer |-> ml,
         timers |-> IF endIndex < totalMarkers
                    THEN Append(tq, ChunkTask(endIndex, totalMarkers, callback, visits))
                    ELSE tq]

\* One run of processChunk of addMarkers: the markers layer and the timers
\* after it, or the TypeError of reading _coords of filteredData[i] when the
\* filtered set has become shorter than the load's totalMarkers.
processChunk(ml, tq, fd, processedCount, totalMarkers, callback, visits) ==
    LET endIndex == Min(processedCount + chunkSize, totalMarkers)
        batch == (processedCount + 1)..endIndex
        threw == \E i \in batch : i > Len(fd)
        added == [r \in CrashRefs |->
                    Cardinality({i \in batch :
                                    fd[i] = r /\ loadedCrashData[r]._coords # <<>>})]
        read == visits \o Range(processedCount + 1, endIndex)
    IN  IF threw
        THEN [threw |-> TRUE, called |-> FALSE, visits |-> visits,
              markersLayer |-> ml, timers |-> tq]
        ELSE [threw |-> FALSE,
              called |-> ~(endIndex < totalMarkers),
              visits |-> read,
              markersLayer |->
                  [ml EXCEPT !.markers = [r \in CrashRefs |-> @[r] + added[r]]],
              timers |->
                  IF endIndex < totalMarkers
                  THEN Append(tq, ChunkTask(endIndex, totalMarkers, callback, read))
                  ELSE IF callback = "full"
                  THEN Append(tq, Task("afterMarkers", 100))
                  ELSE Append(tq, Task("hideLoading", 100))]

\* What has happened, after a run of processChunk: a callback invoked, and
\* whether the load that invoked it has read every index once, in order.
chunkHistory(h, chunk, totalMarkers) ==
    [h EXCEPT
        !.completed = IF chunk.called THEN @ + 1 ELSE @,
        !.skipped = @ \/ (chunk.called /\ chunk.visits # Range(1, totalMarkers))]

\* addMarkers(callback) up to its first yield.
addMarkers(tq, fd, callback) ==
    processChunk([onMap |-> TRUE, markers |-> NoMarkers], tq, fd, 0, Len(fd),
                 callback, <<>>)

\* The layers on the map after addDensityMap / addChoropleth, and the layer
\* the global then refers to.
withDensityMap(onMap, fd) ==
    onMap \cup {[id |-> NewLayerId(onMap), data |-> densityData(fd)]}

withChoropleth(onMap, fd) ==
    onMap \cup {[id |-> NewLayerId(onMap), data |-> choroplethData(fd)]}

\* if (layer && map.hasLayer(layer)) map.removeLayer(layer)
withoutLayer(onMap, ref) == {l \in onMap : l.id # ref}

LoadRunning == \E i \in 1..Len(timers) : timers[i].kind = "processChunk"

\* The page as the script leaves it before anything is loaded.
Constructed ==
    /\ filteredData = <<>>
    /\ stats = updateStatistics(<<>>)
    /\ activeLayers = [markers |-> TRUE, density |-> FALSE, choropleth |-> FALSE]
    /\ markersLayer = [onMap |-> FALSE, markers |-> NoMarkers]
    /\ densityLayer = 0
    /\ choroplethLayer = 0
    /\ mapHeat = {}
    /\ mapChoropleth = {}
    /\ loadingVisible = TRUE
    /\ frames = <<>>
    /\ searchPending = FALSE
    /\ userActions = 0
    /\ history = [superseded |-> FALSE, overlapped |-> FALSE, started |-> 0,
                  completed |-> 0, skipped |-> FALSE, unloaded |-> FALSE,
                  applied |-> FALSE]

\* The page when the data sets are loaded and linked and the boundaries
\* fetched: applyFilters(false) has set its timer. The address holds no
\* parameters.
Loaded ==
    /\ Constructed
    /\ timers = <<Task("applyFilters", 0)>>
    /\ url = NoParams
    /\ lgaBoundaries = "loaded"

\* No function is being evaluated on its own (every specification but
\* SpecFunctions).
NoCall ==
    /\ args = <<>>
    /\ result = <<>>

\* A callback of the page may run (the page is not the single crash of
\* SpecFilter).
Running == pc \notin {"start", "done"}

(***************************************************************************)
(* SpecFilter: the filter predicates as applyFilters runs them on one      *)
(* crash under one setting of the widgets.                                 *)
(***************************************************************************)
InitFilter ==
    /\ pc = "start"
    /\ out = NoOut
    /\ Loaded
    /\ NoCall
    /\ \/ CasualtyCase
       \/ UnitCase
       \/ DateTimeCase
       \/ BasicCase
       \/ WidgetCase
       \/ AreaNameCase

\* One evaluation of the callback of crashData.filter in applyFilters.
EvaluateFilters ==
    /\ pc = "start"
    /\ LET filters == getFilterValues(dom)
       IN  out' = [basic |-> matchesBasicFilters(row, filters),
                   dateTime |-> matchesDateTimeFilters(row, filters),
                   casualty |-> matchesCasualtyFilters(row, filters),
                   units |-> matchesUnitsFilters(row, filters),
                   accepted |-> matchesAllFilters(row, filters)]
    /\ pc' = "done"
    /\ UNCHANGED <<row, dom, pageVars>>

NextFilter == EvaluateFilters

SpecFilter == InitFilter /\ [][NextFilter]_vars

(***************************************************************************)
(* Spec: the page under the user's clicks and the browser's callbacks.     *)
(***************************************************************************)
Init ==
    /\ row = DefaultRow
    /\ dom = DefaultDom
    /\ out = NoOut
    /\ pc = "loaded"
    /\ Constructed
    /\ NoCall
    /\ timers = <<Task("applyFilters", 0)>>
    /\ url = NoParams
    /\ lgaBoundaries = "loaded"

\* The full rebuild of updateMapLayers() up to its requestAnimationFrame.
\* Common to the applyFilters timer and the location search.
FullRebuild ==
    /\ markersLayer' = [onMap |-> FALSE, markers |-> NoMarkers]
    /\ mapHeat' = withoutLayer(mapHeat, densityLayer)
    /\ densityLayer' = 0
    /\ mapChoropleth' = withoutLayer(mapChoropleth, choroplethLayer)
    /\ choroplethLayer' = 0
    /\ frames' = Append(frames, Task("rebuildFrame", 0))

\* The user sets the filter widgets and applies them (or clears them).
applyFilters ==
    /\ pc = "loaded"
    /\ userActions < MaxUserActions
    /\ userActions' = userActions + 1
    /\ \E d \in FilterSettings : dom' = d
    /\ loadingVisible' = TRUE
    /\ timers' = Append(timers, Task("applyFilters", 0))
    /\ UNCHANGED <<url, lgaBoundaries, args, result, row, out, pc, filteredData, stats, activeLayers, markersLayer,
                   densityLayer, choroplethLayer, mapHeat, mapChoropleth, frames,
                   searchPending, history>>

\* The timer of applyFilters: filter, statistics, full rebuild.
applyFiltersTimer ==
    \E i \in 1..Len(timers) :
        /\ Running
        /\ Runnable(i)
        /\ timers[i].kind = "applyFilters"
        /\ filteredData' = filterCrashData(dom)
        /\ stats' = updateStatistics(filteredData')
        /\ FullRebuild
        /\ timers' = RemoveAt(timers, i)
        /\ url' = encodeFiltersToURL(dom)
        /\ history' = [history EXCEPT !.superseded = @ \/ LoadRunning,
                                      !.unloaded = @ \/ ~Linked,
                                      !.applied = @ \/ Linked]
        /\ UNCHANGED <<lgaBoundaries, args, result, row, dom, out, pc, activeLayers, loadingVisible,
                       searchPending, userActions>>

\* The user starts a location search.
searchByLocation ==
    /\ pc = "loaded"
    /\ userActions < MaxUserActions
    /\ ~searchPending
    /\ userActions' = userActions + 1
    /\ searchPending' = TRUE
    /\ loadingVisible' = TRUE
    /\ UNCHANGED <<url, lgaBoundaries, args, result, row, dom, out, pc, filteredData, stats, activeLayers,
                   markersLayer, densityLayer, choroplethLayer, mapHeat,
                   mapChoropleth, timers, frames, history>>

\* The geocoder has answered: the crashes within the radius become the
\* filtered set.
searchByLocationFound ==
    /\ pc = "loaded"
    /\ searchPending
    /\ searchPending' = FALSE
    /\ loadingVisible' = FALSE
    /\ \E nearbyCrashes \in SearchAreas : filteredData' = nearbyCrashes
    /\ stats' = updateStatistics(filteredData')
    /\ FullRebuild
    /\ history' = [history EXCEPT !.superseded = @ \/ LoadRunning]
    /\ UNCHANGED <<url, lgaBoundaries, args, result, row, dom, out, pc, activeLayers, timers, userActions>>

\* The animation frame of the full rebuild sets the timer of the rebuild.
rebuildFrame ==
    /\ Running
    /\ frames # <<>>
    /\ Head(frames).kind = "rebuildFrame"
    /\ frames' = Tail(frames)
    /\ timers' = Append(timers, Task("rebuild", 0))
    /\ UNCHANGED <<url, lgaBoundaries, args, result, row, dom, out, pc, filteredData, stats, activeLayers,
                   markersLayer, densityLayer, choroplethLayer, mapHeat,
                   mapChoropleth, loadingVisible, searchPending, userActions,
                   history>>

\* The timer of the full rebuild: the active layers are added again.
rebuildTimer ==
    \E i \in 1..Len(timers) :
        /\ Running
        /\ Runnable(i)
        /\ timers[i].kind = "rebuild"
        /\ IF activeLayers.markers
           THEN LET load == addMarkers(RemoveAt(timers, i), filteredData, "full")
                IN  /\ loadingVisible' = TRUE
                    /\ markersLayer' = load.markersLayer
                    /\ timers' = load.timers
                    /\ history' =
                           chunkHistory([history EXCEPT
                                            !.overlapped = @ \/ LoadRunning,
                                            !.started = @ + 1],
                                        load, Len(filteredData))
                    /\ UNCHANGED <<densityLayer, choroplethLayer, mapHeat,
                                   mapChoropleth>>
           ELSE /\ loadingVisible' = FALSE
                /\ timers' = RemoveAt(timers, i)
                /\ IF activeLayers.density
                   THEN /\ mapHeat' = withDensityMap(mapHeat, filteredData)
                        /\ densityLayer' = NewLayerId(mapHeat)
                   ELSE UNCHANGED <<mapHeat, densityLayer>>
                /\ IF activeLayers.choropleth
                   THEN /\ mapChoropleth' = withChoropleth(mapChoropleth, filteredData)
                        /\ choroplethLayer' = NewLayerId(mapChoropleth)
                   ELSE UNCHANGED <<mapChoropleth, choroplethLayer>>
                /\ UNCHANGED <<markersLayer, history>>
        /\ UNCHANGED <<url, lgaBoundaries, args, result, row, dom, out, pc, filteredData, stats, activeLayers,
                       frames, searchPending, userActions>>

\* A later chunk of a marker load.
processChunkTimer ==
    \E i \in 1..Len(timers) :
        /\ Running
        /\ Runnable(i)
        /\ timers[i].kind = "processChunk"
        /\ LET chunk == processChunk(markersLayer, RemoveAt(timers, i),
                                     filteredData, timers[i].processedCount,
                                     timers[i].totalMarkers, timers[i].callback,
                                     timers[i].visits)
           IN  /\ markersLayer' = chunk.markersLayer
               /\ timers' = chunk.timers
               /\ history' = chunkHistory(history, chunk, timers[i].totalMarkers)
        /\ UNCHANGED <<url, lgaBoundaries, args, result, row, dom, out, pc, filteredData, stats, activeLayers,
                       densityLayer, choroplethLayer, mapHeat, mapChoropleth,
                       loadingVisible, frames, searchPending, userActions>>

\* The completion callback of a marker load of the full rebuild, 100 ms
\* after its last chunk.
afterMarkersTimer ==
    \E i \in 1..Len(timers) :
        /\ Running
        /\ Runnable(i)
        /\ timers[i].kind = "afterMarkers"
        /\ timers' = RemoveAt(timers, i)
        /\ IF activeLayers.density
           THEN /\ mapHeat' = withDensityMap(mapHeat, filteredData)
                /\ densityLayer' = NewLayerId(mapHeat)
           ELSE UNCHANGED <<mapHeat, densityLayer>>
        /\ IF activeLayers.choropleth
           THEN /\ mapChoropleth' = withChoropleth(mapChoropleth, filteredData)
                /\ choroplethLayer' = NewLayerId(mapChoropleth)
           ELSE UNCHANGED <<mapChoropleth, choroplethLayer>>
        /\ loadingVisible' = FALSE
        /\ UNCHANGED <<url, lgaBoundaries, args, result, row, dom, out, pc, filteredData, stats, activeLayers,
                       markersLayer, frames, searchPending, userActions, history>>

\* The completion callback of a marker load started by the markers toggle.
hideLoadingTimer ==
    \E i \in 1..Len(timers) :
        /\ Running
        /\ Runnable(i)
        /\ timers[i].kind = "hideLoading"
        /\ timers' = RemoveAt(timers, i)
        /\ loadingVisible' = FALSE
        /\ UNCHANGED <<url, lgaBoundaries, args, result, row, dom, out, pc, filteredData, stats, activeLayers,
                       markersLayer, densityLayer, choroplethLayer, mapHeat,
                       mapChoropleth, frames, searchPending, userActions,
                       history>>

\* toggleLayer('markers') and the markers branch of updateMapLayers.
toggleMarkers ==
    /\ pc = "loaded"
    /\ userActions < MaxUserActions
    /\ userActions' = userActions + 1
    /\ activeLayers' = [activeLayers EXCEPT !.markers = ~@]
    /\ IF activeLayers'.markers
       THEN LET load == addMarkers(timers, filteredData, "toggle")
            IN  /\ loadingVisible' = TRUE
                /\ markersLayer' = load.markersLayer
                /\ timers' = load.timers
                /\ history' =
                       chunkHistory([history EXCEPT
                                        !.overlapped = @ \/ LoadRunning,
                                        !.started = @ + 1],
                                    load, Len(filteredData))
       ELSE /\ markersLayer' = [onMap |-> FALSE, markers |-> NoMarkers]
            /\ UNCHANGED <<loadingVisible, timers, history>>
    /\ UNCHANGED <<url, lgaBoundaries, args, result, row, dom, out, pc, filteredData, stats, densityLayer,
                   choroplethLayer, mapHeat, mapChoropleth, frames,
                   searchPending>>

\* toggleLayer('density') and the density branch of updateMapLayers.
toggleDensity ==
    /\ pc = "loaded"
    /\ userActions < MaxUserActions
    /\ userActions' = userActions + 1
    /\ activeLayers' = [activeLayers EXCEPT !.density = ~@]
    /\ IF activeLayers'.density
       THEN /\ loadingVisible' = TRUE
            /\ frames' = Append(frames, Task("densityFrame", 0))
            /\ UNCHANGED <<mapHeat, densityLayer>>
       ELSE /\ mapHeat' = withoutLayer(mapHeat, densityLayer)
            /\ densityLayer' = 0
            /\ UNCHANGED <<loadingVisible, frames>>
    /\ UNCHANGED <<url, lgaBoundaries, args, result, row, dom, out, pc, filteredData, stats, markersLayer,
                   choroplethLayer, mapChoropleth, timers, searchPending,
                   history>>

\* toggleLayer('choropleth') and the choropleth branch of updateMapLayers.
toggleChoropleth ==
    /\ pc = "loaded"
    /\ userActions < MaxUserActions
    /\ userActions' = userActions + 1
    /\ activeLayers' = [activeLayers EXCEPT !.choropleth = ~@]
    /\ mapChoropleth' = withoutLayer(mapChoropleth, choroplethLayer)
    /\ choroplethLayer' = 0
    /\ IF activeLayers'.choropleth
       THEN /\ loadingVisible' = TRUE
            /\ frames' = Append(frames, Task("choroplethFrame", 0))
       ELSE UNCHANGED <<loadingVisible, frames>>
    /\ UNCHANGED <<url, lgaBoundaries, args, result, row, dom, out, pc, filteredData, stats, markersLayer,
                   densityLayer, mapHeat, timers, searchPending, history>>

\* The animation frame of a density or choropleth toggle sets its timer.
layerFrame ==
    /\ Running
    /\ frames # <<>>
    /\ Head(frames).kind \in {"densityFrame", "choroplethFrame"}
    /\ frames' = Tail(frames)
    /\ timers' = Append(timers,
                        Task(IF Head(frames).kind = "densityFrame"
                             THEN "addDensityMap" ELSE "addChoropleth", 0))
    /\ UNCHANGED <<url, lgaBoundaries, args, result, row, dom, out, pc, filteredData, stats, activeLayers,
                   markersLayer, densityLayer, choroplethLayer, mapHeat,
                   mapChoropleth, loadingVisible, searchPending, userActions,
                   history>>

\* The timer of the density toggle: addDensityMap(); hideLoading().
addDensityMapTimer ==
    \E i \in 1..Len(timers) :
        /\ Running
        /\ Runnable(i)
        /\ timers[i].kind = "addDensityMap"
        /\ timers' = RemoveAt(timers, i)
        /\ mapHeat' = withDensityMap(mapHeat, filteredData)
        /\ densityLayer' = NewLayerId(mapHeat)
        /\ loadingVisible' = FALSE
        /\ UNCHANGED <<url, lgaBoundaries, args, result, row, dom, out, pc, filteredData, stats, activeLayers,
                       markersLayer, choroplethLayer, mapChoropleth, frames,
                       searchPending, userActions, history>>

\* The timer of the choropleth toggle: addChoropleth(); hideLoading().
addChoroplethTimer ==
    \E i \in 1..Len(timers) :
        /\ Running
        /\ Runnable(i)
        /\ timers[i].kind = "addChoropleth"
        /\ timers' = RemoveAt(timers, i)
        /\ mapChoropleth' = withChoropleth(mapChoropleth, filteredData)
        /\ choroplethLayer' = NewLayerId(mapChoropleth)
        /\ loadingVisible' = FALSE
        /\ UNCHANGED <<url, lgaBoundaries, args, result, row, dom, out, pc, filteredData, stats, activeLayers,
                       markersLayer, densityLayer, mapHeat, frames,
                       searchPending, userActions, history>>

(***************************************************************************)
(* SpecLoad: the page from DOMContentLoaded on, while the data sets are    *)
(* fetched one after the other and the timer of loadFiltersFromURL runs,   *)
(* up to the first display of the map and the choropleth.                  *)
(***************************************************************************)
\* The addresses the page is opened with: none or some filters encoded.
Addresses == {encodeFiltersToURL(d) : d \in FilterSettings}

\* After the DOMContentLoaded handler: loadData() has shown the overlay
\* and started the crash CSV; loadFiltersFromURL is due in 2000 ms.
InitLoad ==
    /\ row = DefaultRow
    /\ dom = DefaultDom
    /\ out = NoOut
    /\ pc = "crash"
    /\ Constructed
    /\ NoCall
    /\ timers = <<Task("loadFiltersFromURL", 2000)>>
    /\ url \in Addresses
    /\ lgaBoundaries = "none"

\* complete of the crash CSV, then of the casualty CSV: the next data set
\* is requested.
csvComplete ==
    /\ pc \in {"crash", "casualty"}
    /\ pc' = IF pc = "crash" THEN "casualty" ELSE "units"
    /\ loadingVisible' = TRUE
    /\ UNCHANGED <<args, result, row, dom, out, filteredData, stats, activeLayers, markersLayer,
                   densityLayer, choroplethLayer, mapHeat, mapChoropleth, timers,
                   frames, searchPending, userActions, history, url,
                   lgaBoundaries>>

\* complete of the units CSV: linkCrashData(), populateFilterOptions() (its
\* new checkboxes are all checked), loadLGABoundaries().
unitsComplete ==
    /\ pc = "units"
    /\ pc' = "boundaries"
    /\ loadingVisible' = TRUE
    /\ UNCHANGED <<args, result, row, dom, out, filteredData, stats, activeLayers, markersLayer,
                   densityLayer, choroplethLayer, mapHeat, mapChoropleth,
                   timers, frames, searchPending, userActions, history, url,
                   lgaBoundaries>>

\* error of one of the three CSV requests: the overlay is hidden and
\* nothing further is requested.
csvError ==
    /\ pc \in {"crash", "casualty", "units"}
    /\ pc' = IF pc = "crash" THEN "crashFailed"
             ELSE IF pc = "casualty" THEN "casualtyFailed" ELSE "unitsFailed"
    /\ loadingVisible' = FALSE
    /\ UNCHANGED <<args, result, row, dom, out, filteredData, stats, activeLayers, markersLayer,
                   densityLayer, choroplethLayer, mapHeat, mapChoropleth, timers,
                   frames, searchPending, userActions, history, url,
                   lgaBoundaries>>

\* The fetch of the LGA boundaries has answered: with the data
\* (precomputeLGAAssignments) or not (the catch); both call
\* applyFilters(false).
boundariesFetched ==
    /\ pc = "boundaries"
    /\ pc' = "loaded"
    /\ \E answer \in {"loaded", "none"} : lgaBoundaries' = answer
    /\ loadingVisible' = TRUE
    /\ timers' = Append(timers, Task("applyFilters", 0))
    /\ UNCHANGED <<args, result, row, dom, out, filteredData, stats, activeLayers, markersLayer,
                   densityLayer, choroplethLayer, mapHeat, mapChoropleth, frames,
                   searchPending, userActions, history, url>>

\* The 2000 ms timer of the DOMContentLoaded handler: loadFiltersFromURL().
loadFiltersFromURLTimer ==
    \E i \in 1..Len(timers) :
        /\ Running
        /\ Runnable(i)
        /\ timers[i].kind = "loadFiltersFromURL"
        /\ IF url.has = {}
           THEN /\ timers' = RemoveAt(timers, i)
                /\ UNCHANGED dom
           ELSE /\ dom' = loadFiltersFromURL(url, dom, Linked)
                /\ timers' = Append(RemoveAt(timers, i),
                                    Task("urlApplyFilters", 500))
        /\ UNCHANGED <<args, result, row, out, pc, filteredData, stats, activeLayers,
                       markersLayer, densityLayer, choroplethLayer, mapHeat,
                       mapChoropleth, loadingVisible, frames, searchPending,
                       userActions, history, url, lgaBoundaries>>

\* The 500 ms timer of loadFiltersFromURL: applyFilters().
urlApplyFiltersTimer ==
    \E i \in 1..Len(timers) :
        /\ Running
        /\ Runnable(i)
        /\ timers[i].kind = "urlApplyFilters"
        /\ loadingVisible' = TRUE
        /\ timers' = Append(RemoveAt(timers, i), Task("applyFilters", 0))
        /\ UNCHANGED <<args, result, row, dom, out, pc, filteredData, stats, activeLayers,
                       markersLayer, densityLayer, choroplethLayer, mapHeat,
                       mapChoropleth, frames, searchPending, userActions,
                       history, url, lgaBoundaries>>

NextLoad ==
    \/ csvComplete
    \/ unitsComplete
    \/ csvError
    \/ boundariesFetched
    \/ loadFiltersFromURLTimer
    \/ urlApplyFiltersTimer
    \/ applyFiltersTimer
    \/ rebuildFrame
    \/ rebuildTimer
    \/ processChunkTimer
    \/ afterMarkersTimer
    \/ toggleChoropleth
    \/ layerFrame
    \/ addChoroplethTimer

SpecLoad == InitLoad /\ [][NextLoad]_vars

Next ==
    \/ applyFilters
    \/ applyFiltersTimer
    \/ searchByLocation
    \/ searchByLocationFound
    \/ rebuildFrame
    \/ rebuildTimer
    \/ processChunkTimer
    \/ afterMarkersTimer
    \/ hideLoadingTimer
    \/ toggleMarkers
    \/ toggleDensity
    \/ toggleChoropleth
    \/ layerFrame
    \/ addDensityMapTimer
    \/ addChoroplethTimer

Spec == Init /\ [][Next]_vars

\* The callbacks the browser owes the page after a filter application: the
\* timers that are due and the animation frame that was requested.
Callbacks ==
    \/ applyFiltersTimer
    \/ rebuildFrame
    \/ rebuildTimer
    \/ processChunkTimer
    \/ afterMarkersTimer

\* The filter applications of the user after the initial one.
MaxFilterApplications == 1

applyFiltersAgain ==
    /\ userActions < MaxFilterApplications
    /\ applyFilters

\* Filter applications alone, in a browser that runs every callback it
\* owes; the user may stop at any time.
NextLive ==
    \/ applyFiltersAgain
    \/ applyFiltersTimer
    \/ rebuildFrame
    \/ rebuildTimer
    \/ processChunkTimer
    \/ afterMarkersTimer

SpecLive == Init /\ [][NextLive]_vars /\ WF_vars(Callbacks)

(***************************************************************************)
(* SpecFunctions: the helpers of the page evaluated on their own, one call *)
(* each, on arguments drawn from bounded sets.                             *)
(***************************************************************************)
\* The largest crash count of one council area.
MaxCount == 12

\* Math.log on the whole numbers the counts reach, scaled by 10^6 and
\* rounded: MathLog[n] = round(ln(n) * 1000000).
MathLog ==
    <<0, 693147, 1098612, 1386294, 1609438, 1791759, 1945910, 2079442,
      2197225, 2302585, 2397895, 2484907, 2564949, 2639057, 2708050, 2772589,
      2833213, 2890372, 2944439, 2995732, 3044522, 3091042, 3135494, 3178054>>

\* The thresholds of the cascade of getColorForCount from its first test
\* down, in hundredths, and the colour each test returns; the last colour
\* is the one returned when no test succeeds.
colourThresholds ==
    <<96, 92, 88, 84, 80, 76, 72, 70, 69, 68, 67, 66, 65, 64, 63, 62, 61, 60,
      59, 58, 57, 56, 55, 54, 52, 48, 44, 40, 36, 32, 28, 24, 20, 18, 16, 14,
      12, 10, 8, 6, 4, 2>>

colourSteps ==
    <<"#FF00FF", "#FF1AFF", "#FF33FF", "#FF4DCC", "#FF66B3", "#FF0066",
      "#FF0033", "#FF0000", "#FF0D00", "#FF1A00", "#FF2600", "#FF3300",
      "#FF4000", "#FF4D00", "#FF5900", "#FF6600", "#FF7000", "#FF7700",
      "#FF7F00", "#FF8800", "#FF9000", "#FF9900", "#FFA200", "#FFAA00",
      "#FFB300", "#FF8C00", "#FFA500", "#FFB700", "#FFCC00", "#FFE000",
      "#FFFF00", "#D4FF00", "#A8FF00", "#7CFC00", "#32CD32", "#00FF00",
      "#00E68A", "#00CED1", "#00BFFF", "#1E90FF", "#4169E1", "#6A5ACD",
      "#4B0082">>

\* intensity > t / 100, where intensity = Math.log(count + 1) /
\* Math.log(max + 1) and max > 0.
intensityAbove(count, max, t) ==
    MathLog[count + 1] * 100 > t * MathLog[max + 1]

\* The cascade taken from the bottom: the more tests succeed, the later the
\* colour in the list.
getColorForCount_fromBottom(count, max) ==
    IF count = 0
    THEN "#0a0a0a"
    ELSE colourSteps[1 + Cardinality({i \in 1..Len(colourThresholds) :
                         intensityAbove(count, max, colourThresholds[i])})]

\* getColorForCount(count, max): the colour of the first test of the
\* cascade that succeeds.
getColorForCount(count, max) ==
    IF count = 0
    THEN "#0a0a0a"
    ELSE LET passed == {i \in 1..Len(colourThresholds) :
                           intensityAbove(count, max, colourThresholds[i])}
         IN  IF passed = {}
             THEN colourSteps[Len(colourSteps)]
             ELSE colourSteps[CHOOSE i \in passed : \A j \in passed : i <= j]

\* The counts of two council areas and the largest count of the map.
ColourCalls ==
    {[fn |-> "getColorForCount", count1 |-> c1, count2 |-> c2, max |-> m] :
        <<c1, c2, m>> \in {t \in (0..MaxCount) \X (0..MaxCount) \X (1..MaxCount) :
                              t[1] <= t[2] /\ t[2] <= t[3]}}

\* parseFloat on the strings of the coordinate columns, in tenths of a
\* metre: leading blanks, a sign, digits, and after a point one more digit
\* (none of the strings below carries more).
parseFloat(s) ==
    LET t == TrimStart(s)
        signed == t # <<>> /\ Head(t) \in {"-", "+"}
        u == IF signed THEN Tail(t) ELSE t
        whole == DigitRun(u, 0)
        digits == CHOOSE k \in 0..Len(u) :
                      /\ \A j \in 1..k : u[j] \in Digits
                      /\ k < Len(u) => u[k + 1] \notin Digits
        rest == SubSeq(u, digits + 1, Len(u))
        tenth == IF Len(rest) >= 2 /\ rest[1] = "." /\ rest[2] \in Digits
                 THEN DigitVal(rest[2]) ELSE 0
        value == whole * 10 + tenth
    IN  IF u = <<>> \/ Head(u) \notin Digits THEN NaN
        ELSE IF signed /\ Head(t) = "-" THEN Num(0 - value)
        ELSE Num(value)

\* proj4('EPSG:3107', 'EPSG:4326', [xNum, yNum]): the inverse of the Lambert
\* conformal conic projection of South Australia (origin 32 S 135 E,
\* parallels 28 S and 36 S, false origin 1000000 / 2000000, GRS80) on the
\* points below, from tenths of a metre to [lng, lat] in millionths of a
\* degree.
proj4 ==
    (<<0, 12150000>> :> <<123548523, -38598711>>) @@
    (<<0, 12250000>> :> <<123560604, -38509507>>) @@
    (<<0, 16710000>> :> <<124074727, -34515409>>) @@
    (<<0, 28000000>> :> <<125191226, -24375136>>) @@
    (<<13298385, 12150000>> :> <<138789793, -39022451>>) @@
    (<<13298385, 12250000>> :> <<138785768, -38932887>>) @@
    (<<13298385, 16710000>> :> <<138614562, -34922395>>) @@
    (<<13298385, 28000000>> :> <<138243256, -24738438>>) @@
    (<<17000000, 12150000>> :> <<143031364, -38840990>>) @@
    (<<17000000, 12250000>> :> <<143022859, -38751581>>) @@
    (<<17000000, 16710000>> :> <<142661002, -34748103>>) @@
    (<<17000000, 28000000>> :> <<141875772, -24582842>>)

\* convertCoordinates without the test of the bounding box.
convertCoordinates_unchecked(x, y) ==
    LET xNum == parseFloat(x)
        yNum == parseFloat(y)
    IN  IF isNaN(xNum) \/ isNaN(yNum) THEN <<>>
        ELSE <<proj4[<<xNum.val, yNum.val>>][2], proj4[<<xNum.val, yNum.val>>][1]>>

\* convertCoordinates(x, y): [lat, lng], or <<>> for null.
convertCoordinates(x, y) ==
    LET xNum == parseFloat(x)
        yNum == parseFloat(y)
    IN  IF isNaN(xNum) \/ isNaN(yNum) THEN <<>>
        ELSE LET lng == proj4[<<xNum.val, yNum.val>>][1]
                 lat == proj4[<<xNum.val, yNum.val>>][2]
             IN  IF lat < -39000000 \/ lat > -25000000
                        \/ lng < 128000000 \/ lng > 142000000
                 THEN <<>>
                 ELSE <<lat, lng>>

\* The strings of the columns ACCLOC_X and ACCLOC_Y: eastings and northings
\* inside and outside the state, a blank and a placeholder.
ACCLOC_X ==
    {<<"0">>, <<"1", "3", "2", "9", "8", "3", "8", ".", "5">>, <<"1", "7", "0", "0", "0", "0", "0">>, <<>>, <<"N", "/", "A">>}

ACCLOC_Y ==
    {<<"1", "2", "1", "5", "0", "0", "0">>,
     <<"1", "2", "2", "5", "0", "0", "0">>,
     <<"1", "6", "7", "1", "0", "0", "0">>,
     <<"2", "8", "0", "0", "0", "0", "0">>, <<" ">>, <<"a", "b", "c">>}

CoordinateCalls ==
    {[fn |-> "convertCoordinates", x |-> x, y |-> y] :
        x \in ACCLOC_X, y \in ACCLOC_Y}

\* casualtyMap / unitsMap of linkCrashData: the rows grouped by REPORT_ID
\* in the order of the data set. An identifier without rows is no key of
\* the map.
RECURSIVE groupByReportId(_, _)
groupByReportId(rows, map) ==
    IF rows = <<>> THEN map
    ELSE LET reportId == Head(rows).REPORT_ID
             group == IF reportId \in DOMAIN map THEN map[reportId] ELSE <<>>
         IN  groupByReportId(Tail(rows),
                 [k \in DOMAIN map \cup {reportId} |->
                     IF k = reportId THEN Append(group, Head(rows)) ELSE map[k]])

\* map[reportId] || []
groupOf(map, reportId) ==
    IF reportId \in DOMAIN map THEN map[reportId] ELSE <<>>

\* The body of crashData.forEach in linkCrashData on one crash.
linkCrash(crash, casualtyMap, unitsMap) ==
    [REPORT_ID |-> crash.REPORT_ID,
     ACCLOC_X |-> crash.ACCLOC_X,
     ACCLOC_Y |-> crash.ACCLOC_Y,
     _casualties |-> groupOf(casualtyMap, crash.REPORT_ID),
     _units |-> groupOf(unitsMap, crash.REPORT_ID),
     _coords |-> convertCoordinates(crash.ACCLOC_X, crash.ACCLOC_Y)]

\* A join that keeps only the crashes with a casualty or a unit.
linkCrashData_matchedOnly(crashes, casualties, units) ==
    LET casualtyMap == groupByReportId(casualties, <<>>)
        unitsMap == groupByReportId(units, <<>>)
        matched == SelectSeq(crashes, LAMBDA c :
                       c.REPORT_ID \in DOMAIN casualtyMap \cup DOMAIN unitsMap)
    IN  [crashData |-> [i \in 1..Len(matched) |->
                           linkCrash(matched[i], casualtyMap, unitsMap)],
         conversions |-> Len(matched)]

\* linkCrashData(): the crash records after the loop, and the number of
\* calls of convertCoordinates it made.
linkCrashData(crashes, casualties, units) ==
    LET casualtyMap == groupByReportId(casualties, <<>>)
        unitsMap == groupByReportId(units, <<>>)
    IN  [crashData |-> [i \in 1..Len(crashes) |->
                           linkCrash(crashes[i], casualtyMap, unitsMap)],
         conversions |-> Len(crashes)]

\* The three data sets as the loaders leave them: crashes inside and south
\* of the state, casualties and units of these crashes and of a report
\* that is no crash.
MaxCrashes == 2

Easting == <<"1", "3", "2", "9", "8", "3", "8", ".", "5">>
NorthingInside == <<"1", "6", "7", "1", "0", "0", "0">>
NorthingOutside == <<"1", "2", "1", "5", "0", "0", "0">>

CrashRows ==
    {[REPORT_ID |-> "R1", ACCLOC_X |-> Easting, ACCLOC_Y |-> NorthingInside],
     [REPORT_ID |-> "R2", ACCLOC_X |-> Easting, ACCLOC_Y |-> NorthingOutside],
     [REPORT_ID |-> "R3", ACCLOC_X |-> Easting, ACCLOC_Y |-> NorthingInside]}

CasualtyRows ==
    {[REPORT_ID |-> "R1", Casualty_Type |-> "Driver"],
     [REPORT_ID |-> "R1", Casualty_Type |-> "Passenger"],
     [REPORT_ID |-> "R9", Casualty_Type |-> "Driver"]}

UnitRows ==
    {[REPORT_ID |-> "R1", Unit_Type |-> "Motor Cars - Sedan"],
     [REPORT_ID |-> "R2", Unit_Type |-> "Motor Cycle"]}

LinkCalls ==
    {[fn |-> "linkCrashData", crashData |-> c, casualtyData |-> k,
      unitsData |-> u] :
        c \in SeqsUpTo(CrashRows, MaxCrashes),
        k \in SeqsUpTo(CasualtyRows, MaxCasualties),
        u \in SeqsUpTo(UnitRows, MaxUnits)}

\* The oldest casualty.
MaxAge == 70

\* The AGE column: a number in decimal digits, or blank or XXX when the age
\* is not known.
RECURSIVE DecimalString(_)
DecimalString(n) ==
    IF n < 10 THEN <<CHOOSE c \in Digits : DigitVal(c) = n>>
    ELSE Append(DecimalString(n \div 10), CHOOSE c \in Digits : DigitVal(c) = n % 10)

AgeColumn ==
    {DecimalString(n) : n \in 0..MaxAge} \cup {<<>>, <<"X", "X", "X">>}

\* The options of the age-group menu.
AgeGroups == {"0-17", "18-25", "26-35", "36-50", "51-65", "66+"}

\* One casualty against an age filter that is active, every other casualty
\* filter at 'all'.
AgeCalls ==
    {[fn |-> "casualtyMatches",
      casualty |-> Casualty("Driver", age, "Male", "Minor", "Yes", "Worn"),
      selectedAgeGroups |-> groups] :
        age \in AgeColumn, groups \in (SUBSET AgeGroups) \ {{}}}

\* The service worker. A promise is settled as fulfilled with a value or
\* as rejected with an error.
Fulfilled(value) == [state |-> "fulfilled", value |-> value]
Rejected(error) == [state |-> "rejected", value |-> error]

\* fetchAndCache(request, cacheName): the response of the network, stored
\* when it is an ok, basic, unredirected response and cache.put succeeds;
\* the error of fetch thrown again.
fetchAndCache(network, putFails) ==
    IF network = "failed"
    THEN [promise |-> Rejected("TypeError: Failed to fetch"), fetched |-> TRUE,
          stored |-> FALSE]
    ELSE [promise |-> Fulfilled(network), fetched |-> TRUE,
          stored |-> network = "ok" /\ ~putFails]

\* cacheFirstStrategy(request, cacheName, maxAge). The function returns the
\* promise of fetchAndCache without awaiting it, so the promise of the
\* strategy settles as that promise does; its catch block receives only
\* what caches.open and cache.match throw. age is the age of the cached
\* response by its date header, in days; maxAge is in days, 0 for null.
cacheFirstStrategy(cached, age, maxAge, cacheFails, network, putFails) ==
    IF cacheFails
    THEN [promise |-> Fulfilled("Offline - Resource not available"),
          fetched |-> FALSE, stored |-> FALSE]
    ELSE IF cached
    THEN IF maxAge # 0 /\ age > maxAge
         THEN fetchAndCache(network, putFails)
         ELSE [promise |-> Fulfilled("cached"), fetched |-> FALSE,
               stored |-> FALSE]
    ELSE fetchAndCache(network, putFails)

\* A request for a static asset: in the cache or not, younger or older than
\* a week, with the cache storage and the network working or not.
StrategyCalls ==
    {[fn |-> "cacheFirstStrategy", cached |-> c, age |-> a, maxAge |-> m,
      cacheFails |-> cf, network |-> n, putFails |-> pf] :
        c \in BOOLEAN, a \in {0, 7, 8}, m \in {0, 7}, cf \in BOOLEAN,
        n \in {"ok", "notFound", "opaque", "failed"}, pf \in BOOLEAN}

\* The names normalizeLGAName is given: every alias of its table, every
\* canonical name, and the names of AreaNames.
NormalizeCalls ==
    {[fn |-> "normalizeLGAName", name |-> n] :
        n \in DOMAIN lgaMapping \cup {lgaMapping[k] : k \in DOMAIN lgaMapping}
                \cup AreaNames}

\* The length of the filtered set addDensityMap is given.
MaxFiltered == 3

\* Crashes of every severity, the blank one included, with and without
\* cached coordinates.
DensityRows ==
    {[DefaultRow EXCEPT !.CSEF_Severity = s, !._coords = c] :
        s \in {"1: PDO", "2: MI", "3: SI", "4: Fatal", ""},
        c \in {<<>>, <<-35, 138>>, <<-34, 139>>}}

DensityCalls ==
    {[fn |-> "addDensityMap", filteredData |-> fd] :
        fd \in SeqsUpTo(DensityRows, MaxFiltered)}

Calls ==
    ColourCalls \cup DensityCalls \cup CoordinateCalls \cup LinkCalls \cup AgeCalls
        \cup StrategyCalls \cup NormalizeCalls

\* Everything a call leaves alone.
callerVars ==
    <<args, row, dom, out, filteredData, stats, activeLayers, markersLayer,
      densityLayer, choroplethLayer, mapHeat, mapChoropleth, loadingVisible,
      timers, frames, searchPending, userActions, history, url, lgaBoundaries>>

InitFunctions ==
    /\ pc = "call"
    /\ row = DefaultRow
    /\ dom = DefaultDom
    /\ out = NoOut
    /\ Loaded
    /\ args \in Calls
    /\ result = <<>>

\* The style callback of the choropleth colours two areas of one map.
callGetColorForCount ==
    /\ pc = "call"
    /\ args.fn = "getColorForCount"
    /\ result' = <<getColorForCount(args.count1, args.max),
                   getColorForCount(args.count2, args.max)>>
    /\ pc' = "returned"
    /\ UNCHANGED callerVars

\* addDensityMap up to the construction of the heat layer: the samples it
\* hands to L.heatLayer.
callAddDensityMap ==
    /\ pc = "call"
    /\ args.fn = "addDensityMap"
    /\ result' = densitySamples(args.filteredData)
    /\ pc' = "returned"
    /\ UNCHANGED callerVars

callConvertCoordinates ==
    /\ pc = "call"
    /\ args.fn = "convertCoordinates"
    /\ result' = convertCoordinates(args.x, args.y)
    /\ pc' = "returned"
    /\ UNCHANGED callerVars

callLinkCrashData ==
    /\ pc = "call"
    /\ args.fn = "linkCrashData"
    /\ result' = linkCrashData(args.crashData, args.casualtyData, args.unitsData)
    /\ pc' = "returned"
    /\ UNCHANGED callerVars

\* The callback of casualties.some in matchesCasualtyFilters.
callCasualtyMatches ==
    /\ pc = "call"
    /\ args.fn = "casualtyMatches"
    /\ result' = casualtyMatches(args.casualty,
                      [getFilterValues(DefaultDom) EXCEPT
                          !.selectedAgeGroups = args.selectedAgeGroups])
    /\ pc' = "returned"
    /\ UNCHANGED callerVars

\* The fetch handler answers a request with cacheFirstStrategy.
callCacheFirstStrategy ==
    /\ pc = "call"
    /\ args.fn = "cacheFirstStrategy"
    /\ result' = cacheFirstStrategy(args.cached, args.age, args.maxAge,
                                    args.cacheFails, args.network, args.putFails)
    /\ pc' = "returned"
    /\ UNCHANGED callerVars

callNormalizeLGAName ==
    /\ pc = "call"
    /\ args.fn = "normalizeLGAName"
    /\ result' = normalizeLGAName(args.name)
    /\ pc' = "returned"
    /\ UNCHANGED callerVars

NextFunctions ==
    \/ callGetColorForCount
    \/ callNormalizeLGAName
    \/ callCacheFirstStrategy
    \/ callCasualtyMatches
    \/ callLinkCrashData
    \/ callConvertCoordinates
    \/ callAddDensityMap

SpecFunctions == InitFunctions /\ [][NextFunctions]_vars

(***************************************************************************)
(* What the claims say, stated apart from the predicates above.            *)
(***************************************************************************)
Filters == getFilterValues(dom)

CasualtyPredicates ==
    {"selectedRoadUsers", "selectedAgeGroups", "selectedSexes",
     "selectedInjuries", "selectedSeatBelts", "selectedHelmets"}

UnitPredicates ==
    {"selectedVehicles", "selectedVehicleYears", "selectedOccupants",
     "selectedLicenseTypes", "selectedRegStates", "selectedDirections",
     "selectedMovements"}

Active(f, names) == {n \in names : "all" \notin f[n]}

\* The age group of an age, by the partition 0-17, 18-25, 26-35, 36-50,
\* 51-65, 66+.
AgeGroupOf(age) ==
    IF age < 0 THEN "none"
    ELSE IF age <= 17 THEN "0-17"
    ELSE IF age <= 25 THEN "18-25"
    ELSE IF age <= 35 THEN "26-35"
    ELSE IF age <= 50 THEN "36-50"
    ELSE IF age <= 65 THEN "51-65"
    ELSE "66+"

VehicleYearRangeOf(year) ==
    IF year < 2000 THEN "pre-2000"
    ELSE IF year <= 2010 THEN "2000-2010"
    ELSE IF year <= 2020 THEN "2011-2020"
    ELSE "2021+"

OccupantsValueOf(n) ==
    IF n <= 0 THEN "none"
    ELSE IF n = 1 THEN "1"
    ELSE IF n = 2 THEN "2"
    ELSE IF n = 3 THEN "3"
    ELSE IF n = 4 THEN "4"
    ELSE "5+"

CasualtySatisfies(c, name, f) ==
    CASE name = "selectedRoadUsers" -> c.Casualty_Type \in f[name]
      [] name = "selectedAgeGroups" ->
            ~parseInt(c.AGE).nan /\ AgeGroupOf(parseInt(c.AGE).val) \in f[name]
      [] name = "selectedSexes" -> c.Sex \in f[name]
      [] name = "selectedInjuries" -> c.Injury_Extent \in f[name]
      [] name = "selectedSeatBelts" -> c.Seat_Belt \in f[name]
      [] name = "selectedHelmets" -> c.HELMET \in f[name]

UnitSatisfies(u, name, f) ==
    CASE name = "selectedVehicles" -> u.Unit_Type \in f[name]
      [] name = "selectedVehicleYears" ->
            ~parseInt(u.Veh_Year).nan
            /\ VehicleYearRangeOf(parseInt(u.Veh_Year).val) \in f[name]
      [] name = "selectedOccupants" ->
            ~parseInt(u.Number_Occupants).nan
            /\ OccupantsValueOf(parseInt(u.Number_Occupants).val) \in f[name]
      [] name = "selectedLicenseTypes" -> u.Licence_Type \in f[name]
      [] name = "selectedRegStates" -> u.Veh_Reg_State \in f[name]
      [] name = "selectedDirections" -> u.Direction_Of_Travel \in f[name]
      [] name = "selectedMovements" -> u.Unit_Movement \in f[name]

\* Some single casualty (unit) satisfies every active predicate.
SomeCasualtySatisfiesAll(r, f) ==
    \E i \in 1..Len(r._casualties) :
        \A name \in Active(f, CasualtyPredicates) :
            CasualtySatisfies(r._casualties[i], name, f)

SomeUnitSatisfiesAll(r, f) ==
    \E i \in 1..Len(r._units) :
        \A name \in Active(f, UnitPredicates) : UnitSatisfies(r._units[i], name, f)

\* The two yes/no unit filters, each over the units of the crash.
HeavyVehicleHolds(r, f) ==
    LET some == \E i \in 1..Len(r._units) : r._units[i].Unit_Type \in HEAVY_VEHICLE_TYPES
    IN  CASE f.heavyVehicle = "yes" -> some
          [] f.heavyVehicle = "no" -> ~some
          [] OTHER -> TRUE

TowingHolds(r, f) ==
    LET some == \E i \in 1..Len(r._units) : Trim(r._units[i].TOWING) # <<>>
    IN  CASE f.towing = "Yes" -> some
          [] f.towing = "No" -> ~some
          [] OTHER -> TRUE

Driver16 == Casualty("Driver", <<"1", "6">>, "Male", "Minor", "Yes", "Worn")
Pedestrian40 == Casualty("Pedestrian", <<"4", "0">>, "Female", "Fatal", "No", "Not Worn")

\* C1: a crash that has casualties passes matchesCasualtyFilters exactly when
\* one single casualty satisfies every active casualty predicate at once.
C1_CombinedCasualtyMatch ==
    (pc = "done" /\ Len(row._casualties) > 0) =>
        (out.casualty <=> SomeCasualtySatisfiesAll(row, Filters))

\* C1 witness: the Driver aged 16 and the Pedestrian aged 40 under
\* {Pedestrian, 0-17}: each predicate has its casualty, no casualty has both,
\* and the crash was rejected.
C1_Witness ==
    /\ pc = "done"
    /\ row._casualties = <<Driver16, Pedestrian40>>
    /\ Filters.selectedRoadUsers = {"Pedestrian"}
    /\ Filters.selectedAgeGroups = {"0-17"}
    /\ Active(Filters, CasualtyPredicates) = {"selectedRoadUsers", "selectedAgeGroups"}
    /\ ~out.casualty

\* C2: a crash without casualties is excluded whenever a casualty predicate
\* is active, and a crash without units is excluded whenever a multi-attribute
\* unit predicate is active, whatever heavy-vehicle and towing are set to.
C2_EmptyChildrenExcluded ==
    pc = "done" =>
        /\ (Len(row._casualties) = 0 /\ Active(Filters, CasualtyPredicates) # {})
                => ~out.accepted
        /\ (Len(row._units) = 0 /\ Active(Filters, UnitPredicates) # {})
                => ~out.accepted

\* The casualty half of C2 alone.
C2_NoCasualtiesExcluded ==
    (pc = "done" /\ Len(row._casualties) = 0
        /\ Active(Filters, CasualtyPredicates) # {}) => ~out.casualty

\* C3: matchesUnitsFilters accepts exactly when the heavy-vehicle filter
\* holds, the towing filter holds and, if a multi-attribute unit filter is
\* active, some unit satisfies all of them.
C3_YesNoAndCombined ==
    pc = "done" =>
        (out.units <=>
            /\ HeavyVehicleHolds(row, Filters)
            /\ TowingHolds(row, Filters)
            /\ (Active(Filters, UnitPredicates) # {} => SomeUnitSatisfiesAll(row, Filters)))

\* C3 for the crashes that have a unit.
C3_WithUnits ==
    (pc = "done" /\ Len(row._units) > 0) =>
        (out.units <=>
            /\ HeavyVehicleHolds(row, Filters)
            /\ TowingHolds(row, Filters)
            /\ (Active(Filters, UnitPredicates) # {} => SomeUnitSatisfiesAll(row, Filters)))

\* C4: with a multi-attribute unit filter active (and the yes/no filters
\* holding), a crash passes exactly when one single unit satisfies every
\* active unit predicate at once.
C4_CombinedUnitMatch ==
    (pc = "done" /\ Active(Filters, UnitPredicates) # {}
        /\ HeavyVehicleHolds(row, Filters) /\ TowingHolds(row, Filters)) =>
        (out.units <=> SomeUnitSatisfiesAll(row, Filters))

\* C5: with every widget at its no-constraint value, every crash record is
\* kept.
C5_NoConstraintKeepsAll ==
    (pc = "done" /\ dom = DefaultDom) => out.accepted

\* C5 for the records whose Year is unparseable or within the slider's range.
C5_WithinYearRange ==
    (pc = "done" /\ dom = DefaultDom
        /\ (parseInt(row.Year).nan
            \/ (parseInt(row.Year).val >= 2012 /\ parseInt(row.Year).val <= 2024)))
        => out.accepted

\* A multi-valued widget holding no option or every option, the other
\* widgets untouched.
EmptyOrFullSelection ==
    \E id \in MenuIds \cup SelectIds :
        /\ dom = [DefaultDom EXCEPT ![id] = dom[id]]
        /\ dom[id] = {} \/ Options(id) \subseteq dom[id]

\* C6: an empty selection, or one holding every option, filters like 'all'.
C6_EmptyOrFullIsNoConstraint ==
    (pc = "done" /\ EmptyOrFullSelection) =>
        (out.accepted <=> matchesAllFilters(row, getFilterValues(DefaultDom)))

\* C6 for the empty selections alone.
C6_EmptyIsNoConstraint ==
    (pc = "done"
        /\ \E id \in MenuIds \cup SelectIds :
                dom = [DefaultDom EXCEPT ![id] = {}]) =>
        (out.accepted <=> matchesAllFilters(row, getFilterValues(DefaultDom)))

AllDigits(s) == \A i \in 1..Len(s) : s[i] \in Digits

\* D/M/YYYY with one or two digits of day and month.
WellFormedDate(s) ==
    LET p == Split(s, "/")
    IN  /\ Len(p) = 3
        /\ Len(p[1]) \in {1, 2} /\ AllDigits(p[1])
        /\ Len(p[2]) \in {1, 2} /\ AllDigits(p[2])
        /\ Len(p[3]) = 4 /\ AllDigits(p[3])

\* HH:MM.
WellFormedTime(s) ==
    LET p == Split(s, ":")
    IN  /\ Len(p) = 2
        /\ Len(p[1]) = 2 /\ AllDigits(p[1])
        /\ Len(p[2]) = 2 /\ AllDigits(p[2])

WellFormedDateTime(s) ==
    LET p == Split(s, " ")
    IN  Len(p) = 2 /\ WellFormedDate(p[1]) /\ WellFormedTime(p[2])

AnyDateTimeBound(f) ==
    f.dateFrom # <<>> \/ f.dateTo # <<>> \/ f.timeFrom # <<>> \/ f.timeTo # <<>>

\* C7: with a date or time bound active, a crash whose date-time is absent,
\* or missing or malformed in its date part or its time part, is excluded.
C7_FailsClosed ==
    (pc = "done" /\ AnyDateTimeBound(Filters)
        /\ ~WellFormedDateTime(row.Crash_Date_Time)) => ~out.dateTime

\* C7 for the absent date-time alone.
C7_AbsentExcluded ==
    (pc = "done" /\ AnyDateTimeBound(Filters) /\ row.Crash_Date_Time = <<>>)
        => ~out.dateTime

\* Minutes since midnight of HH:MM.
Minutes(s) ==
    LET p == Split(s, ":") IN 60 * parseInt(p[1]).val + parseInt(p[2]).val

CrashMinutes == Minutes(Split(row.Crash_Date_Time, " ")[2])

\* C8: with both time bounds set, a crash time written HH:MM matches exactly
\* when, for from > to, it is >= from or <= to, and otherwise lies in
\* [from, to] (the code compares the strings, which for HH:MM is the order of
\* the times).
C8_TimeRange ==
    (pc = "done" /\ Filters.timeFrom # <<>> /\ Filters.timeTo # <<>>
        /\ Filters.dateFrom = <<>> /\ Filters.dateTo = <<>>
        /\ WellFormedDateTime(row.Crash_Date_Time)) =>
        (out.dateTime <=>
            IF Minutes(Filters.timeFrom) > Minutes(Filters.timeTo)
            THEN \/ CrashMinutes >= Minutes(Filters.timeFrom)
                 \/ CrashMinutes <= Minutes(Filters.timeTo)
            ELSE /\ CrashMinutes >= Minutes(Filters.timeFrom)
                 /\ CrashMinutes <= Minutes(Filters.timeTo))

\* C8 witness: 23:30 was accepted under 22:00 to 02:00.
C8_Witness ==
    /\ pc = "done"
    /\ Filters.timeFrom = Time_2200 /\ Filters.timeTo = Time_0200
    /\ Filters.dateFrom = <<>> /\ Filters.dateTo = <<>>
    /\ row.Crash_Date_Time = Date_15_06_2020 \o Sp \o Time_2330
    /\ out.dateTime

\* The three times of the claim under 22:00 to 02:00.
C8_Examples ==
    (pc = "done" /\ Filters.timeFrom = Time_2200 /\ Filters.timeTo = Time_0200
        /\ Filters.dateFrom = <<>> /\ Filters.dateTo = <<>>) =>
        /\ row.Crash_Date_Time = Date_15_06_2020 \o Sp \o Time_2330 => out.dateTime
        /\ row.Crash_Date_Time = Date_15_06_2020 \o Sp \o Time_0100 => out.dateTime
        /\ row.Crash_Date_Time = Date_15_06_2020 \o Sp \o Time_1200 => ~out.dateTime

\* Every callback the page has scheduled has run.
Quiescent == timers = <<>> /\ frames = <<>> /\ ~searchPending

HasCoords(r) == crashData[r]._coords # <<>>

\* One marker for each record of the filtered set that has coordinates.
OneMarkerEach(fd) ==
    [r \in CrashRefs |->
        IF HasCoords(r) /\ \E i \in 1..Len(fd) : fd[i] = r THEN 1 ELSE 0]

\* C9: when a filter application or a location search has replaced the
\* filtered set while a chunked marker load was running, then, once all
\* scheduled work has run, the marker layer holds the markers of the newest
\* filtered set only, and every density and choropleth layer on the map was
\* built from the newest filtered set.
C9_NewestResultOnly ==
    (Quiescent /\ history.superseded) =>
        /\ markersLayer.onMap => markersLayer.markers = OneMarkerEach(filteredData)
        /\ \A l \in mapHeat : l.data = densityData(filteredData)
        /\ \A l \in mapChoropleth : l.data = choroplethData(filteredData)

\* The density and choropleth part of C9 alone.
C9_NoStaleLayer ==
    (Quiescent /\ history.superseded) =>
        /\ \A l \in mapHeat : l.data = densityData(filteredData)
        /\ \A l \in mapChoropleth : l.data = choroplethData(filteredData)

\* What C10 says of the layers and the statistics.
MarkersExact ==
    /\ markersLayer.markers = OneMarkerEach(filteredData)
    /\ stats.totalCrashes = Len(filteredData)
    /\ \A l \in mapHeat :
            l.id = densityLayer =>
                Len(l.data) = Cardinality({i \in 1..Len(filteredData) :
                                              HasCoords(filteredData[i])})
    /\ \A l \in mapChoropleth :
            l.id = choroplethLayer =>
                \A i \in 1..Len(filteredData) :
                    hasAreaName(crashData[filteredData[i]]) =>
                        l.data.lgaCounts[crashData[filteredData[i]].LGA] =
                            Cardinality({j \in 1..Len(filteredData) :
                                crashData[filteredData[j]].LGA =
                                    crashData[filteredData[i]].LGA})

\* C10: when marker loading has finished, the marker layer holds exactly one
\* marker for each filtered record with cached coordinates and none for any
\* other record; the records without coordinates are missing from the
\* markers and the density samples only, and are counted in the statistics
\* and in the by-name area counts.
C10_OneMarkerPerRecord ==
    (activeLayers.markers /\ markersLayer.onMap /\ ~LoadRunning) => MarkersExact

\* C10 for the marker loads that ran alone.
C10_LoadsRunAlone ==
    (activeLayers.markers /\ markersLayer.onMap /\ ~LoadRunning
        /\ ~history.superseded /\ ~history.overlapped) => MarkersExact

PendingChunks == {i \in 1..Len(timers) : timers[i].kind = "processChunk"}

\* C11: a marker load reads the filtered set in consecutive batches of at
\* most chunkSize records with a yield between them: a load that has yielded
\* has read exactly the indices up to its processedCount, once each and in
\* order, in full batches; a load that has invoked its callback had read
\* every index once; and every load started is still running or has invoked
\* its callback exactly once.
C11_ChunkedLoad ==
    /\ \A i \in PendingChunks :
          /\ timers[i].visits = Range(1, timers[i].processedCount)
          /\ timers[i].processedCount < timers[i].totalMarkers
          /\ timers[i].processedCount % chunkSize = 0
          /\ timers[i].processedCount > 0
    /\ ~history.skipped
    /\ history.started = history.completed + Cardinality(PendingChunks)

\* C11 for the loads during which the filtered set was not replaced.
C11_NotSuperseded ==
    ~history.superseded => C11_ChunkedLoad

\* C12: no filter application runs before the crash, casualty and unit
\* data sets are loaded and linked: the timer of applyFilters never filters
\* an empty, partly loaded or unlinked crashData, the application of the
\* filters restored from the address included.
C12_FilterAfterLoad == ~history.unloaded

\* The choropleth layer the global refers to, when it is on the map.
ShownChoropleth == {l \in mapChoropleth : l.id = choroplethLayer}

\* The raw area names of the filtered set that have a record with
\* coordinates, each with the number of filtered records of that name.
CirclesOf(fd) ==
    LET named == {i \in 1..Len(fd) : crashData[fd[i]].LGA \notin {"", " "}}
        located == {i \in named : HasCoords(fd[i])}
    IN  [lga \in {crashData[fd[i]].LGA : i \in located} |->
            Cardinality({i \in named : crashData[fd[i]].LGA = lga})]

\* C14: when the LGA boundaries could not be loaded, the initial filter
\* application and the statistics still run (the timer of applyFilters is
\* set, and once it has run the statistics are those of the filtered set),
\* and the choropleth, once shown, is the circle layer: one circle for each
\* area name with a located record, no boundary polygons.
C14_BoundaryFallback ==
    (pc = "loaded" /\ lgaBoundaries = "none") =>
        /\ \/ \E i \in 1..Len(timers) : timers[i].kind = "applyFilters"
           \/ history.applied /\ stats = updateStatistics(filteredData)
        /\ \A l \in mapChoropleth : l.data.kind = "circles"
        /\ (activeLayers.choropleth /\ Quiescent) =>
               /\ ShownChoropleth # {}
               /\ \A l \in ShownChoropleth : l.data.shown = CirclesOf(filteredData)

C14_Witness ==
    /\ pc = "loaded"
    /\ lgaBoundaries = "none"
    /\ history.applied
    /\ stats.totalCrashes = 3
    /\ activeLayers.choropleth
    /\ Quiescent
    /\ \E l \in ShownChoropleth :
           l.data.kind = "circles" /\ DOMAIN l.data.shown # {}

\* The widgets that hold another value than on the reset page.
NonDefaultWidgets == {k \in DOMAIN DefaultDom : dom[k] # DefaultDom[k]}

\* The filter types encodeFiltersToURL writes to the address.
EncodedWidgets ==
    {"currentYearRange", "severity", "crashType", "weather", "dayNight",
     "duiInvolved", "drugsInvolved", "area", "dateFrom", "dateTo", "timeFrom",
     "timeTo"}

\* The filter values of the reset page after it has decoded the address
\* that encodes the widgets as they are.
RoundTrip ==
    getFilterValues(loadFiltersFromURL(encodeFiltersToURL(dom), DefaultDom, TRUE))

\* C15: a filter specification with a non-default value in one filter
\* type, encoded by encodeFiltersToURL and decoded by loadFiltersFromURL on
\* a reset page, comes back as an equivalent specification, whichever the
\* filter type.
C15_RoundTrip ==
    Cardinality(NonDefaultWidgets) = 1 => RoundTrip = getFilterValues(dom)

\* The round trip does hold for the filter types that are encoded.
C15_EncodedRoundTrip ==
    NonDefaultWidgets \subseteq EncodedWidgets => RoundTrip = getFilterValues(dom)

\* The tag that stands for each filter value in the active-filters bar
\* (the bar has no tag for the day/night and the DUI filter; they are named
\* here as the others are).
TagOf ==
    [yearFrom |-> "Year", yearTo |-> "Year", dateFrom |-> "Date",
     dateTo |-> "Date", timeFrom |-> "Time", timeTo |-> "Time",
     selectedSeverities |-> "Severity", crashType |-> "Crash Type",
     selectedCrashTypes |-> "Crash Type", weather |-> "Weather",
     dayNight |-> "Day/Night", duiInvolved |-> "DUI", selectedAreas |-> "LGA",
     selectedSuburbs |-> "Suburb", selectedRoadUsers |-> "Road User",
     selectedAgeGroups |-> "Age", selectedSexes |-> "Sex",
     selectedInjuries |-> "Injury", selectedSeatBelts |-> "Seat Belt",
     selectedHelmets |-> "Helmet", heavyVehicle |-> "Heavy Vehicle",
     selectedVehicles |-> "Vehicle Type", selectedVehicleYears |-> "Vehicle Year",
     selectedOccupants |-> "Occupants", towing |-> "Towing",
     rollover |-> "Rollover", fire |-> "Fire",
     selectedLicenseTypes |-> "License", selectedRegStates |-> "Reg State",
     selectedDirections |-> "Direction", selectedMovements |-> "Movement",
     selectedRoadSurfaces |-> "Road Surface",
     selectedMoistureConds |-> "Moisture", drugsInvolved |-> "Drugs"]

\* The filter values that are not the values of the reset page.
NonDefaultFilters ==
    {k \in DOMAIN Filters : Filters[k] # getFilterValues(DefaultDom)[k]}

\* C16: the active-filters enumeration is complete: every filter whose
\* value is not its default has its tag in the bar, and the bar is empty
\* exactly when all filters are at their defaults.
C16_ActiveFiltersComplete ==
    /\ \A k \in NonDefaultFilters : TagOf[k] \in updateActiveFiltersDisplay(dom)
    /\ updateActiveFiltersDisplay(dom) = {} <=> NonDefaultFilters = {}

\* The bar shows no tag for a filter at its default.
C16_NoTagAtDefault ==
    \A t \in updateActiveFiltersDisplay(dom) :
        \E k \in NonDefaultFilters : TagOf[k] = t

\* fd lists records of the crash collection, each at most once, in the
\* order of the collection.
IsSubSequence(fd) ==
    /\ \A i \in 1..Len(fd) : fd[i] \in 1..Len(loadedCrashData)
    /\ \A i, j \in 1..Len(fd) : i < j => fd[i] < fd[j]

RECURSIVE DecimalValue(_)
DecimalValue(s) ==
    IF s = <<>> THEN 0
    ELSE 10 * DecimalValue(SubSeq(s, 1, Len(s) - 1)) + DigitVal(s[Len(s)])

\* The sum of a count field over the records of fd (an absent count is 0).
RECURSIVE FieldSum(_, _)
FieldSum(fd, field) ==
    IF fd = <<>> THEN 0
    ELSE DecimalValue(crashData[Head(fd)][field]) + FieldSum(Tail(fd), field)

\* C18: the displayed crash total is the number of records of the filtered
\* set, and the fatality, serious-injury and minor-injury totals are the
\* sums of the per-crash count fields over all its records, those without
\* an area name or without valid coordinates included.
C18_TotalsOfFilteredSet ==
    /\ stats.totalCrashes = Len(filteredData)
    /\ stats.totalFatalities = Num(FieldSum(filteredData, "Total_Fats"))
    /\ stats.totalSerious = Num(FieldSum(filteredData, "Total_SI"))
    /\ stats.totalMinor = Num(FieldSum(filteredData, "Total_MI"))

\* A filter application has kept the crash without an area name and the
\* crash without coordinates, and their counts are in the totals.
C18_Witness ==
    /\ history.applied
    /\ \E i \in 1..Len(filteredData) : crashData[filteredData[i]].LGA = ""
    /\ \E i \in 1..Len(filteredData) : ~HasCoords(filteredData[i])
    /\ stats = [totalCrashes |-> 3, totalFatalities |-> Num(1),
                totalSerious |-> Num(2), totalMinor |-> Num(1)]

\* The filtered records with a non-blank area name that normalizes to the
\* canonical area c.
CanonicalCount(fd, c) ==
    Cardinality({i \in 1..Len(fd) :
                    /\ crashData[fd[i]].LGA \notin {"", " "}
                    /\ normalizeLGAName(crashData[fd[i]].LGA) = c})

\* The choropleth layers a step has added to the map.
BuiltChoropleth == mapChoropleth' \ mapChoropleth

\* One bucket for each canonical area, showing the count of all filtered
\* records whose name normalizes to it.
MergedBuckets(l, fd) ==
    /\ \A a \in DOMAIN l.data.shown :
           l.data.shown[a] = CanonicalCount(fd, normalizeLGAName(a))
    /\ \A a, b \in DOMAIN l.data.shown :
           normalizeLGAName(a) = normalizeLGAName(b) => a = b
    /\ \A a \in DOMAIN l.data.shown : a \notin {"", " "}

\* C19: in the area aggregate the raw names that are aliases of one council
\* are merged into one bucket with the sum of their counts: the count shown
\* for a canonical area is the number of filtered records with a non-blank
\* area name that normalizes to it, and records without an area name are in
\* no bucket.
C19_AliasesMerged ==
    [][\A l \in BuiltChoropleth : MergedBuckets(l, filteredData')]_vars

\* Over the boundary polygons the aliases are merged.
C19_MergedOverBoundaries ==
    [][\A l \in BuiltChoropleth :
          l.data.kind = "geoJSON" => MergedBuckets(l, filteredData')]_vars

\* C20: normalizeLGAName returns a name that is not a known alias (not a
\* key of the alias table) verbatim, unchanged.
C20_UnknownNameVerbatim ==
    row.LGA \notin DOMAIN lgaMapping => normalizeLGAName(row.LGA) = row.LGA

\* A name that is in upper case and trimmed, and not a known alias, does
\* come back unchanged.
C20_UpperTrimmedVerbatim ==
    (row.LGA \notin DOMAIN lgaMapping /\ row.LGA \notin DOMAIN upperTrimmed)
        => normalizeLGAName(row.LGA) = row.LGA

\* C21: getColorForCount returns the no-data colour for a count of 0, and
\* for counts c1 < c2 below the largest count the intensity of c1 is
\* strictly below that of c2, so the larger count is never given a lower
\* step of the colour cascade (a step nearer its end).
Returned(fn) == pc = "returned" /\ args.fn = fn

StepOf(colour) == CHOOSE i \in 1..Len(colourSteps) : colourSteps[i] = colour

C21_ColourMonotone ==
    Returned("getColorForCount") =>
        /\ args.count1 = 0 => result[1] = "#0a0a0a"
        /\ args.count1 > 0 => (\E i \in 1..Len(colourSteps) : colourSteps[i] = result[1])
        /\ (0 < args.count1 /\ args.count1 < args.count2
                /\ args.count2 < args.max) =>
              \* the two intensities have the positive divisor
              \* Math.log(max + 1) in common
              /\ MathLog[args.max + 1] > 0
              /\ MathLog[args.count1 + 1] < MathLog[args.count2 + 1]
              /\ StepOf(result[2]) <= StepOf(result[1])

\* Two counts below the largest that fall on different steps.
C21_Witness ==
    /\ Returned("getColorForCount")
    /\ 0 < args.count1
    /\ args.count1 < args.count2
    /\ args.count2 < args.max
    /\ StepOf(result[2]) < StepOf(result[1])

\* C22: every sample of the density layer carries the severity ordinal of
\* its crash as weight (PDO 1, MI 2, SI 3, Fatal 4), a number of 1..4, and
\* every record of the filtered set with cached coordinates contributes
\* exactly one sample, at those coordinates.
SeverityOrdinal ==
    ("1: PDO" :> 1) @@ ("2: MI" :> 2) @@ ("3: SI" :> 3) @@ ("4: Fatal" :> 4)

Located(rows) == SelectSeq(rows, LAMBDA r : r._coords # <<>>)

C22_DensityWeights ==
    Returned("addDensityMap") =>
        LET located == Located(args.filteredData)
        IN  /\ Len(result) = Len(located)
            /\ \A k \in 1..Len(result) :
                  /\ result[k][3] \in 1..4
                  /\ <<result[k][1], result[k][2]>> = located[k]._coords
                  /\ located[k].CSEF_Severity \in DOMAIN SeverityOrdinal =>
                        result[k][3] = SeverityOrdinal[located[k].CSEF_Severity]

\* A filtered set with a record without coordinates and two located records
\* of different severities.
C22_Witness ==
    /\ Returned("addDensityMap")
    /\ Len(result) < Len(args.filteredData)
    /\ \E k \in 1..Len(result) : result[k][3] = 3
    /\ \E k \in 1..Len(result) : result[k][3] = 2

\* C24: convertCoordinates returns null when either column is not a number
\* and when the converted point has a latitude outside [-39, -25] or a
\* longitude outside [128, 142]; every pair it returns lies inside that
\* box.
NonNumeric(s) ==
    LET t == TrimStart(s)
        u == IF t # <<>> /\ Head(t) \in {"-", "+"} THEN Tail(t) ELSE t
    IN  u = <<>> \/ Head(u) \notin Digits

InBox(lat, lng) ==
    /\ -39000000 <= lat /\ lat <= -25000000
    /\ 128000000 <= lng /\ lng <= 142000000

C24_BoundingBox ==
    Returned("convertCoordinates") =>
        /\ (NonNumeric(args.x) \/ NonNumeric(args.y)) => result = <<>>
        /\ (~NonNumeric(args.x) /\ ~NonNumeric(args.y)) =>
              LET point == proj4[<<parseFloat(args.x).val, parseFloat(args.y).val>>]
              IN  ~InBox(point[2], point[1]) => result = <<>>
        /\ result # <<>> => InBox(result[1], result[2])

\* A northing just south of the box is rejected.
C24_Witness ==
    /\ Returned("convertCoordinates")
    /\ ~NonNumeric(args.x)
    /\ ~NonNumeric(args.y)
    /\ result = <<>>
    /\ proj4[<<parseFloat(args.x).val, parseFloat(args.y).val>>][1] \in
           128000000..142000000

\* A point of the state is returned.
C24_InsideReturned ==
    /\ Returned("convertCoordinates")
    /\ result # <<>>

\* C23: after linkCrashData the casualty list of each crash is exactly the
\* casualty rows with the REPORT_ID of the crash, and its unit list the unit
\* rows with it; a crash without matching rows has empty lists and is kept;
\* its coordinates are converted once and cached on the record.
RowsOf(rows, reportId) == SelectSeq(rows, LAMBDA r : r.REPORT_ID = reportId)

C23_Linked ==
    Returned("linkCrashData") =>
        /\ Len(result.crashData) = Len(args.crashData)
        /\ result.conversions = Len(args.crashData)
        /\ \A i \in 1..Len(args.crashData) :
              LET crash == result.crashData[i]
                  given == args.crashData[i]
              IN  /\ crash.REPORT_ID = given.REPORT_ID
                  /\ crash._casualties = RowsOf(args.casualtyData, given.REPORT_ID)
                  /\ crash._units = RowsOf(args.unitsData, given.REPORT_ID)
                  /\ crash._coords =
                         convertCoordinates(given.ACCLOC_X, given.ACCLOC_Y)

\* A crash with two casualties in the order of the casualty data set after
\* a crash with none and no unit.
C23_Witness ==
    /\ Returned("linkCrashData")
    /\ Len(result.crashData) = 2
    /\ result.crashData[1]._casualties = <<>>
    /\ result.crashData[1]._units = <<>>
    /\ Len(result.crashData[2]._casualties) = 2
    /\ result.crashData[2]._casualties[1] # result.crashData[2]._casualties[2]

\* C25: the age groups 0-17, 18-25, 26-35, 36-50, 51-65 and 66+ form a
\* partition: every age of 0 or more falls in exactly one group; a casualty
\* passes an active age filter exactly when the group of its age is
\* selected; a casualty whose age cannot be parsed passes no active age
\* filter.
C25_AgePartition ==
    Returned("casualtyMatches") =>
        LET age == parseInt(args.casualty.AGE)
        IN  /\ (~age.nan /\ age.val >= 0) =>
                  {g \in AgeGroups : ageGroupMatches(g, age.val)}
                      = {AgeGroupOf(age.val)}
            /\ ~age.nan =>
                  (result <=> AgeGroupOf(age.val) \in args.selectedAgeGroups)
            /\ age.nan => ~result

\* An age at the upper end of its group passes the filter of that group.
C25_Witness ==
    /\ Returned("casualtyMatches")
    /\ parseInt(args.casualty.AGE) = Num(25)
    /\ args.selectedAgeGroups = {"18-25", "66+"}
    /\ result

\* An age that is not known passes no active age filter.
C25_UnknownAge ==
    /\ Returned("casualtyMatches")
    /\ args.casualty.AGE = <<"X", "X", "X">>
    /\ ~result

\* C26: whenever the casualty filter of the script accepts a crash, the
\* casualty filter of its earlier generation, which matches each predicate
\* on its own, accepts it too; with at most one casualty predicate active
\* the two return the same.
C26_EarlierIsLooser ==
    pc = "done" =>
        /\ out.casualty => earlierMatchesCasualtyFilters(row, Filters)
        /\ Cardinality(Active(Filters, CasualtyPredicates)) <= 1 =>
              out.casualty = earlierMatchesCasualtyFilters(row, Filters)

\* Two predicates met by two different casualties: the earlier generation
\* accepts the crash, the script does not.
C26_Witness ==
    /\ pc = "done"
    /\ Cardinality(Active(Filters, CasualtyPredicates)) >= 2
    /\ ~out.casualty
    /\ earlierMatchesCasualtyFilters(row, Filters)

\* One predicate is active and a later casualty of the crash meets it.
C26_OneActiveAgree ==
    /\ pc = "done"
    /\ Cardinality(Active(Filters, CasualtyPredicates)) = 1
    /\ Len(row._casualties) = 2
    /\ out.casualty
    /\ earlierMatchesCasualtyFilters(row, Filters)

\* C27: when every timer and animation frame of any interleaving of filter
\* applications and layer toggles has run, the map holds at most one
\* density layer and at most one choropleth layer, and each of them is the
\* layer that densityLayer / choroplethLayer refers to: no layer is left on
\* the map without a reference.
C27_NoOrphanLayer ==
    Quiescent =>
        /\ Cardinality(mapHeat) <= 1
        /\ Cardinality(mapChoropleth) <= 1
        /\ \A l \in mapHeat : l.id = densityLayer
        /\ \A l \in mapChoropleth : l.id = choroplethLayer

\* C28: after any finite sequence of filter applications, once every timer
\* and every animation-frame callback has run, the loading indicator is
\* hidden; it is never left showing, also when filtering or the loading of
\* the markers throws.
C28_HiddenWhenQuiescent ==
    Quiescent => ~loadingVisible

Expired == args.cached /\ args.maxAge # 0 /\ args.age > args.maxAge

C29_AlwaysResolves ==
    Returned("cacheFirstStrategy") =>
        /\ result.promise.state = "fulfilled"
        /\ (~args.cacheFails /\ args.cached
                /\ ~Expired) =>
              (result.promise.value = "cached" /\ ~result.fetched)
        /\ ((~args.cached \/ Expired)
                /\ args.network = "failed") =>
              result.promise.value = "Offline - Resource not available"

\* The part of C29 about the entries of the cache that have not expired.
C29_CachedWithoutFetch ==
    (Returned("cacheFirstStrategy") /\ ~args.cacheFails /\ args.cached
        /\ ~Expired) =>
        (result.promise = Fulfilled("cached") /\ ~result.fetched)

\* C30: normalizeLGAName is idempotent and single-valued: every alias of
\* the table is mapped to its one canonical name, and normalizing a
\* normalized name returns it unchanged, no canonical name being an alias
\* of a different name.
C30_Idempotent ==
    Returned("normalizeLGAName") =>
        /\ normalizeLGAName(result) = result
        /\ args.name \in DOMAIN lgaMapping =>
              /\ result = lgaMapping[args.name]
              /\ result \in DOMAIN lgaMapping => lgaMapping[result] = result

\* An alias was normalized to a canonical name other than itself.
C30_Witness ==
    /\ Returned("normalizeLGAName")
    /\ args.name \in DOMAIN lgaMapping
    /\ result # args.name
    /\ result = "THE DC OF CEDUNA"

====
